---- MODULE Spec2Model ----
(***************************************************************************)
(* A model of neust, the NEU CAS client: the UserStatus classifier and    *)
(* accessors, the cookie-header lookup, the login protocols of the three   *)
(* auth methods (Credential, Token, Wechat) run by a Session against one   *)
(* of the two endpoints, Session values and their clones, and the WebVPN   *)
(* url encryption.                                                         *)
(*                                                                         *)
(* Text is a sequence of chunks.  A chunk is one character or one literal  *)
(* the code looks for ("<title>", "LT-", ...); no chunk is a concatenation *)
(* of others, so two texts are equal exactly when their chunk sequences    *)
(* are, and a search for a literal is a search for its chunk.              *)
(***************************************************************************)
EXTENDS Integers, Sequences, FiniteSets, TLC

VARIABLES
    input,          \* pure-function specifications: the arguments
    output,         \* pure-function specifications: the returned value
    jar,            \* Session.cookie_jar: the set of cookies [scope, name, value]
    pc,             \* where the running call is suspended
    call,           \* the running call: method, endpoint, arguments
    log,            \* the requests the running call has issued, in order
    resp,           \* the last response the running call received
    lt,             \* Credential::execute's local lt
    hdr,            \* _check_status: what cookie_jar.cookies(cookie_url) returned
    ret,            \* what the call returned to its caller
    held,           \* the caller: the Active status the last login handed it
    sessions,       \* clone specification: the Session values that exist
    stores,         \* clone specification: the Jar allocations behind the Arcs
    seen,           \* clone specification: what the last operation observed
    tasks,          \* race specification: the two tasks running Token::execute
    events,         \* race specification: injections and status checks, in order
    written,        \* race specification: the token last written to the store
    orders          \* race specification: the orders the runs so far went in

vars == <<input, output, jar, pc, call, log, resp, lt, hdr, ret, held,
          sessions, stores, seen, tasks, events, written, orders>>
protoVars == <<jar, pc, call, log, resp, lt, hdr, ret, held>>
pureVars == <<input, output>>
cloneVars == <<sessions, stores, seen>>
raceVars == <<tasks, events, written, orders>>

-----------------------------------------------------------------------------
(* Bounds *)

\* longest HTML body the classifier is applied to, in chunks
MaxLen == 5
\* most cookies in a raw Cookie header handed to find_cookie_value
MaxCookies == 2

-----------------------------------------------------------------------------
(* Text helpers (Rust str methods and the regex crate, on chunk sequences) *)

None == [some |-> FALSE]
Some(v) == [some |-> TRUE, v |-> v]

\* all sequences over S of length at most n
SeqUpTo(S, n) == UNION {[1..k -> S] : k \in 0..n}

\* str::starts_with
StartsWith(s, p) == Len(p) <= Len(s) /\ SubSeq(s, 1, Len(p)) = p

\* whether pat occurs in s at (1-based) position i
OccursAt(s, pat, i) ==
    /\ i >= 1
    /\ i + Len(pat) - 1 <= Len(s)
    /\ SubSeq(s, i, i + Len(pat) - 1) = pat

\* str::find: the 0-based index of the first occurrence of pat, as an Option
Find(s, pat) ==
    LET hits == {i \in 1..(Len(s) + 1) : OccursAt(s, pat, i)}
    IN  IF hits = {} THEN None
        ELSE Some((CHOOSE i \in hits : \A k \in hits : i <= k) - 1)

Min(S) == CHOOSE i \in S : \A k \in S : i <= k
Max(S) == CHOOSE i \in S : \A k \in S : i >= k

NL == "\n"

\* Regex `open(.+?)close`, Regex::captures(..).get(1): the leftmost position
\* where the pattern matches, and there the shortest group; `.` is any chunk
\* but a line break, and the group holds at least one.
FirstCapture(s, open, close) ==
    LET Ends(i) == {j \in (i + Len(open) + 1)..Len(s) :
                        /\ OccursAt(s, close, j)
                        /\ \A k \in (i + Len(open))..(j - 1) : s[k] # NL}
        starts == {i \in 1..Len(s) : OccursAt(s, open, i) /\ Ends(i) # {}}
    IN  IF starts = {} THEN None
        ELSE LET i == Min(starts)
             IN  Some(SubSeq(s, i + Len(open), Min(Ends(i)) - 1))

-----------------------------------------------------------------------------
(* status.rs: UserStatus and its classifier *)

OT == "<title>"
CT == "</title>"
\* the title literals of status.rs, transliterated (the module is ASCII):
\* "zhihuidongda--tongyishenfenrenzheng" is the login page, "zhihuidongda"
\* the reset page, "xitongtishi" the banned page
ZHDD == "zhihuidongda"
TYSF == "--tongyishenfenrenzheng"
XTTS == "xitongtishi"
VARID == "var id_number = "
QUOTE == "\""

Active(token, username) ==
    [variant |-> "Active", token |-> token, username |-> username]
NeedReset(token) == [variant |-> "NeedReset", token |-> token]
Banned(token) == [variant |-> "Banned", token |-> token]
Rejected == [variant |-> "Rejected"]

TITLE_RE(html) == FirstCapture(html, <<OT>>, <<CT>>)
USERNAME_RE(html) == FirstCapture(html, <<VARID, QUOTE>>, <<QUOTE>>)

\* a classifier that tests the title with starts_with instead of equality
from_response_html_prefix(html, token) ==
    LET title == TITLE_RE(html)
        cap == USERNAME_RE(html)
        username == IF cap.some THEN cap.v ELSE <<>>
        tok == IF token.some THEN token.v ELSE <<>>
    IN  CASE title.some /\ StartsWith(title.v, <<ZHDD, TYSF>>) -> Rejected
          [] title.some /\ StartsWith(title.v, <<ZHDD>>) -> NeedReset(tok)
          [] title.some /\ StartsWith(title.v, <<XTTS>>) -> Banned(tok)
          [] OTHER -> Active(tok, username)

\* a classifier that leaves the username empty whenever a title is present
\* and gives the banned page no token
from_response_html_lossy(html, token) ==
    LET title == TITLE_RE(html)
        cap == USERNAME_RE(html)
        username == IF cap.some /\ ~title.some THEN cap.v ELSE <<>>
        tok == IF token.some THEN token.v ELSE <<>>
    IN  CASE title = Some(<<ZHDD, TYSF>>) -> Rejected
          [] title = Some(<<ZHDD>>) -> NeedReset(tok)
          [] title = Some(<<XTTS>>) -> Banned(<<>>)
          [] OTHER -> Active(tok, username)

\* UserStatus::from_response_html(html, token: Option<String>)
from_response_html(html, token) ==
    LET title == TITLE_RE(html)
        cap == USERNAME_RE(html)
        username == IF cap.some THEN cap.v ELSE <<>>
        tok == IF token.some THEN token.v ELSE <<>>
    IN  CASE title = Some(<<ZHDD, TYSF>>) -> Rejected
          [] title = Some(<<ZHDD>>) -> NeedReset(tok)
          [] title = Some(<<XTTS>>) -> Banned(tok)
          [] OTHER -> Active(tok, username)

-----------------------------------------------------------------------------
(* The state every specification starts the session part in: a fresh       *)
(* Session (with_client_builder: an empty Jar) and no call running.        *)

NoCall == [method |-> "none"]
NoResp == [kind |-> "none"]
NoRet == [kind |-> "none"]

FreshSession ==
    /\ jar = {}
    /\ pc = "idle"
    /\ call = NoCall
    /\ log = <<>>
    /\ resp = NoResp
    /\ lt = <<>>
    /\ hdr = None
    /\ ret = NoRet
    /\ held = None

NoTasks ==
    /\ tasks = <<>>
    /\ events = <<>>
    /\ written = None
    /\ orders = {}

NoSessions ==
    /\ sessions = <<>>
    /\ stores = <<>>
    /\ seen = [op |-> "none"]
    /\ NoTasks

NotRun == [done |-> FALSE]
Returned(v) == [done |-> TRUE, v |-> v]

-----------------------------------------------------------------------------
(* SpecClassify: from_response_html applied to every body of at most       *)
(* MaxLen chunks and every optional token.                                 *)

HtmlChunks == {OT, CT, ZHDD, TYSF, XTTS, VARID, QUOTE, NL}
TokenArgs == {None, Some(<<>>), Some(<<"t">>)}

InitClassify ==
    /\ input \in [fn : {"from_response_html"},
                  html : SeqUpTo(HtmlChunks, MaxLen),
                  token : TokenArgs]
    /\ output = NotRun
    /\ FreshSession
    /\ NoSessions

Classify ==
    /\ input.fn = "from_response_html"
    /\ ~output.done
    /\ output' = Returned(from_response_html(input.html, input.token))
    /\ UNCHANGED <<input, protoVars, cloneVars, raceVars>>

NextClassify == Classify

SpecClassify == InitClassify /\ [][NextClassify]_vars

(* C1: for every body and optional token the classifier returns Rejected   *)
(* when the first <title> capture is the login-page title, NeedReset when  *)
(* it is the reset-page title, Banned when it is the banned-page title,    *)
(* and Active for every other title and when there is no title.            *)
C1_TitleDispatch ==
    (input.fn = "from_response_html" /\ output.done) =>
        LET title == TITLE_RE(input.html)
            v == output.v.variant
        IN  /\ (title.some /\ title.v = <<ZHDD, TYSF>>) => v = "Rejected"
            /\ (title.some /\ title.v = <<ZHDD>>) => v = "NeedReset"
            /\ (title.some /\ title.v = <<XTTS>>) => v = "Banned"
            /\ (~title.some \/ title.v \notin {<<ZHDD, TYSF>>, <<ZHDD>>, <<XTTS>>})
                    => v = "Active"

\* each of the four outcomes is reached, Active both without a title and
\* with another title
C1_Witness ==
    /\ output.done
    /\ input.html = <<OT, ZHDD, TYSF, CT>>
    /\ output.v = Rejected

(* C2: the token of an Active, NeedReset or Banned result is the supplied  *)
(* token, or the empty string when none is supplied; the username of an    *)
(* Active result is the first `var id_number = "..."` capture of the body, *)
(* or the empty string when there is none.                                 *)
C2_TokenAndUsername ==
    (input.fn = "from_response_html" /\ output.done) =>
        LET s == output.v
            cap == USERNAME_RE(input.html)
        IN  /\ s.variant \in {"Active", "NeedReset", "Banned"} =>
                    s.token = (IF input.token.some THEN input.token.v ELSE <<>>)
            /\ s.variant = "Active" =>
                    s.username = (IF cap.some THEN cap.v ELSE <<>>)

C2_Witness ==
    /\ output.done
    /\ input.html = <<VARID, QUOTE, XTTS, QUOTE>>
    /\ input.token = Some(<<"t">>)
    /\ output.v = Active(<<"t">>, <<XTTS>>)

-----------------------------------------------------------------------------
(* session.rs: find_cookie_value, and the Cookie header it is handed.      *)
(* Cookie names and values are sequences of one-byte characters, so that   *)
(* `+ 1` skips exactly one chunk.                                          *)

EQ == "="
SEMI == ";"
SP == " "

Panicked == [panic |-> TRUE]
Value(v) == [panic |-> FALSE, v |-> v]

\* fn find_cookie_value(raw: &str, cookie_name: &str) -> Option<String>;
\* indexes are 0-based as in the source, &raw[start_index..] panics when
\* start_index is past the end of raw
find_cookie_value(raw, cookie_name) ==
    LET found == Find(raw, cookie_name)
    IN  IF ~found.some THEN Value(None)
        ELSE LET start_index == found.v + Len(cookie_name) + 1
             IN  IF start_index > Len(raw) THEN Panicked
                 ELSE LET sub == SubSeq(raw, start_index + 1, Len(raw))
                          end_index == Find(sub, <<SEMI>>)
                      IN  IF ~end_index.some THEN Value(Some(sub))
                          ELSE Value(Some(SubSeq(sub, 1, end_index.v)))

\* the header value CookieStore::cookies builds from the cookies that match
\* a url, in the order given: "n1=v1; n2=v2"
RECURSIVE CookieHeader(_)
CookieHeader(cs) ==
    IF cs = <<>> THEN <<>>
    ELSE cs[1].name \o <<EQ>> \o cs[1].value
         \o (IF Len(cs) = 1 THEN <<>> ELSE <<SEMI, SP>> \o CookieHeader(Tail(cs)))

-----------------------------------------------------------------------------
(* SpecCookie: find_cookie_value applied to every header of at most        *)
(* MaxCookies cookies with distinct names, and every name.                 *)

HeaderNames == {<<"C">>, <<"X", "C">>, <<"L">>}
HeaderValues == {<<>>, <<"1">>, <<"C">>}
HeaderCookies == [name : HeaderNames, value : HeaderValues]

DistinctNames(cs) == \A i, j \in 1..Len(cs) : cs[i].name = cs[j].name => i = j

InitCookie ==
    /\ input \in [fn : {"find_cookie_value"},
                  cookies : {cs \in SeqUpTo(HeaderCookies, MaxCookies) : DistinctNames(cs)},
                  cookie_name : HeaderNames]
    /\ output = NotRun
    /\ FreshSession
    /\ NoSessions

FindCookie ==
    /\ input.fn = "find_cookie_value"
    /\ ~output.done
    /\ output' = Returned(find_cookie_value(CookieHeader(input.cookies),
                                            input.cookie_name))
    /\ UNCHANGED <<input, protoVars, cloneVars, raceVars>>

NextCookie == FindCookie

SpecCookie == InitCookie /\ [][NextCookie]_vars

\* the value of the cookie called name among cs, as an Option
CookieNamed(cs, name) ==
    IF \E i \in 1..Len(cs) : cs[i].name = name
    THEN Some(cs[CHOOSE i \in 1..Len(cs) : cs[i].name = name].value)
    ELSE None

(* C9: for every raw Cookie header of name=value pairs separated by "; "   *)
(* and every cookie name, find_cookie_value returns the value of the       *)
(* cookie with that name, and not-found when the header holds no cookie    *)
(* with that name, in particular for the empty header.                     *)
C9_FindsNamedCookie ==
    (input.fn = "find_cookie_value" /\ output.done) =>
        output.v = Value(CookieNamed(input.cookies, input.cookie_name))

(* C32: for every raw Cookie header and every cookie name,                 *)
(* find_cookie_value returns a value or not-found: it never slices out of  *)
(* range and never panics, also when the name is the end of the header     *)
(* with no "=" after it or occurs inside the name or value of another      *)
(* cookie.                                                                 *)
C32_NeverPanics ==
    (input.fn = "find_cookie_value" /\ output.done) =>
        /\ ~output.v.panic
        /\ output.v.v = None \/ output.v.v.some

-----------------------------------------------------------------------------
(* endpoint.rs: the two endpoints.  A url is a sequence of chunks (origin, *)
(* path segments, query); a cookie name is a sequence of characters.       *)

ENDPOINT_DIRECT ==
    [login_url |-> <<"https://pass.neu.edu.cn", "/tpass/login">>,
     cookie_name |-> <<"C", "A", "S", "T", "G", "C">>,
     wechat_verify_url |-> <<"https://pass.neu.edu.cn", "/tpass/checkQRCodeScan">>,
     cookie_url |-> <<"https://pass.neu.edu.cn", "/tpass/">>]

ENDPOINT_WEBVPN ==
    [login_url |-> <<"https://webvpn.neu.edu.cn",
                     "/https/77726476706e69737468656265737421e0f6528f693e6d45300d8db9d6562d",
                     "/tpass/login">>,
     cookie_name |-> <<"w", "e", "n", "g", "i", "n", "e", "_", "v", "p", "n", "_",
                       "t", "i", "c", "k", "e", "t", "w", "e", "b", "v", "p", "n", "_",
                       "n", "e", "u", "_", "e", "d", "u", "_", "c", "n">>,
     wechat_verify_url |-> <<"https://webvpn.neu.edu.cn",
                     "/https/77726476706e69737468656265737421e0f6528f693e6d45300d8db9d6562d",
                     "/tpass/checkQRCodeScan">>,
     cookie_url |-> <<"https://webvpn.neu.edu.cn", "/">>]

Endpoints == {ENDPOINT_DIRECT, ENDPOINT_WEBVPN}

-----------------------------------------------------------------------------
(* error.rs and the Result of a call *)

StatusConflict == [variant |-> "StatusConflict"]
ParsePageError(url) == [variant |-> "ParsePageError", url |-> url]
ReqwestError == [variant |-> "ReqwestError"]

Ok(status) == [kind |-> "Ok", status |-> status]
Err(error) == [kind |-> "Err", error |-> error]
\* the call unwound through a panic
Panic == [kind |-> "Panic"]

-----------------------------------------------------------------------------
(* The cookie store (reqwest's Jar), as Session uses it *)

\* the cookies of jar j that a request to url carries
Matching(j, url) == {c \in j : c.scope = url}

\* a cookie stored for url: it replaces the cookie of the same name there
StoreCookie(j, url, name, value) ==
    {c \in j : ~(c.scope = url /\ c.name = name)}
        \cup {[scope |-> url, name |-> name, value |-> value]}

RECURSIVE StoreAll(_, _, _)
StoreAll(j, url, cs) ==
    IF cs = {} THEN j
    ELSE LET c == CHOOSE x \in cs : TRUE
         IN  StoreAll(StoreCookie(j, url, c.name, c.value), url, cs \ {c})

\* Jar::add_cookie_str(cookie, url): "name=value", the value ending at the
\* first ';'; a string without '=' is no cookie and is dropped
add_cookie_str(j, cookie, url) ==
    LET eq == Find(cookie, <<EQ>>)
    IN  IF ~eq.some THEN j
        ELSE LET rest == SubSeq(cookie, eq.v + 2, Len(cookie))
                 semi == Find(rest, <<SEMI>>)
                 value == IF semi.some THEN SubSeq(rest, 1, semi.v) ELSE rest
             IN  StoreCookie(j, url, SubSeq(cookie, 1, eq.v), value)

\* every order of the elements of a finite set
Orders(S) ==
    {f \in [1..Cardinality(S) -> S] : \A x \in S : \E i \in DOMAIN f : f[i] = x}

\* CookieStore::cookies(url): None when no cookie matches, else the header
\* value, the matching cookies in an order the store does not promise
Headers(j, url) ==
    IF Matching(j, url) = {} THEN {None}
    ELSE {Some(CookieHeader(o)) : o \in Orders(Matching(j, url))}

-----------------------------------------------------------------------------
(* credential.rs: the lt pattern and the login form *)

LTOPEN == "LT-"
TPASS == "-tpass"
\* the chunks made only of characters of the class [0-9a-zA-Z-]
LTClass ==
    {LTOPEN, TPASS, "-", "0", "1", "2", "3", "4", "5", "6", "7", "8", "9",
     "a", "b", "c", "d", "e", "f", "g", "h", "p", "s", "u", "w", "x"}

\* Regex `LT-[0-9a-zA-Z-]+-tpass`, Regex::find: the leftmost match, and
\* there the longest (`+` is greedy); the class matches at least one chunk
RE(body) ==
    LET Ends(i) == {j \in (i + 2)..Len(body) :
                        /\ body[j] = TPASS
                        /\ \A k \in (i + 1)..(j - 1) : body[k] \in LTClass}
        starts == {i \in 1..Len(body) : body[i] = LTOPEN /\ Ends(i) # {}}
    IN  IF starts = {} THEN None
        ELSE LET i == Min(starts) IN Some(SubSeq(body, i, Max(Ends(i))))

Digit(d) == <<"0", "1", "2", "3", "4", "5", "6", "7", "8", "9">>[d + 1]

\* format!("{}", n) of a usize
RECURSIVE Decimal(_)
Decimal(n) == IF n < 10 THEN <<Digit(n)>> ELSE Decimal(n \div 10) \o <<Digit(n % 10)>>

Get(url) == [method |-> "GET", url |-> url, body |-> <<>>]
Post(url, body) == [method |-> "POST", url |-> url, body |-> body]

\* a build_login_request that swaps the two lengths
build_login_request_swapped(username, password, url, lt_) ==
    Post(url,
         <<"rsa=">> \o username \o password \o lt_
            \o <<"&ul=">> \o Decimal(Len(password))
            \o <<"&pl=">> \o Decimal(Len(username))
            \o <<"&lt=">> \o lt_
            \o <<"&execution=e1s1&_eventId=submit">>)

\* Credential::build_login_request(client, url, lt); str::len counts bytes,
\* and every character of a username or password here is one byte
build_login_request(username, password, url, lt_) ==
    Post(url,
         <<"rsa=">> \o username \o password \o lt_
            \o <<"&ul=">> \o Decimal(Len(username))
            \o <<"&pl=">> \o Decimal(Len(password))
            \o <<"&lt=">> \o lt_
            \o <<"&execution=e1s1&_eventId=submit">>)

-----------------------------------------------------------------------------
(* wechat.rs *)

WECHAT_AUTH_URL == <<"https://pass.neu.edu.cn", "/tpass/qyQrLogin">>

\* Wechat::get_auth_url
get_auth_url(uuid) == WECHAT_AUTH_URL \o <<"?uuid=">> \o uuid

\* a get_verify_url that writes the two parameters in each other's place
get_verify_url_swapped(uuid, base_url, random) ==
    base_url \o <<"?random=">> \o uuid \o <<"&uuid=", random>>

\* Wechat::get_verify_url(base_url), random the rand::random::<f64>() drawn
get_verify_url(uuid, base_url, random) ==
    base_url \o <<"?random=", random, "&uuid=">> \o uuid

-----------------------------------------------------------------------------
(* The portal, as the documentation of the crate describes it             *)
(* (error.rs: the causes of StatusConflict; status.rs: what Rejected       *)
(* means; doc/endpoint.rs).  It sees only the request and its cookies.     *)

\* token values: the portal knows two tokens of live sessions and one that
\* has expired
GoodTokens == {<<"g">>, <<"h">>}
StaleToken == <<"s">>

Usernames == {<<"2", "0">>}
GoodPassword == <<"p", "w", "d">>
Passwords == {GoodPassword, <<"x">>}

\* whether jar j holds the token of a live session of endpoint e
Online(j, e) ==
    \E c \in Matching(j, e.cookie_url) :
        c.name = e.cookie_name /\ c.value \in GoodTokens

LoginPage == <<OT, ZHDD, TYSF, CT, QUOTE, LTOPEN, "7", TPASS, QUOTE>>
\* the first match is "LT-7-tpass-tpass", a second one follows it
LoginPageTwo == <<OT, ZHDD, TYSF, CT, LTOPEN, "7", TPASS, TPASS, QUOTE, LTOPEN, "8", TPASS>>
\* a login page the pattern does not match
LoginPageChanged == <<OT, ZHDD, TYSF, CT, LTOPEN, TPASS>>
PortalPage == <<VARID, QUOTE, "2", "0", QUOTE>>
ResetPage == <<OT, ZHDD, CT>>
BannedPage == <<OT, XTTS, CT>>

PortalUrl == <<"https://portal.neu.edu.cn", "/tp_up/">>

Answer(url, body, cookies) ==
    [kind |-> "ok", url |-> url, body |-> body, cookies |-> cookies]

TokenCookie(e, value) == [name |-> e.cookie_name, value |-> value]

\* GET login_url, the login page and the status check alike: a session that
\* is online on e is sent on to the portal (and may be handed a new token);
\* one that reaches WebVPN without being online on the direct endpoint is
\* sent to the direct login page; any other is served the login page
LoginPageAnswers(j, e) ==
    IF Online(j, e)
    THEN {Answer(PortalUrl, b, cs) :
            b \in {PortalPage, ResetPage, BannedPage},
            cs \in {{}, {TokenCookie(e, <<"h">>)}}}
    ELSE IF e = ENDPOINT_WEBVPN /\ ~Online(j, ENDPOINT_DIRECT)
    THEN {Answer(ENDPOINT_DIRECT.login_url \o <<"?service=webvpn">>, LoginPage, {})}
    ELSE {Answer(u, b, cs) :
            u \in {e.login_url, e.login_url \o <<";jsessionid=1">>},
            b \in {LoginPage, LoginPageTwo, LoginPageChanged},
            cs \in {IF e = ENDPOINT_WEBVPN
                    THEN {TokenCookie(e, StaleToken)} ELSE {}}}

\* POST login_url: the right password opens a session
LoginAnswers(e, password) ==
    IF password = GoodPassword
    THEN {Answer(PortalUrl, PortalPage, {TokenCookie(e, <<"g">>)})}
    ELSE {Answer(e.login_url, LoginPage, {})}

\* GET wechat_verify_url: an empty body until the user has authorized
VerifyAnswers(e) ==
    {Answer(e.wechat_verify_url, <<>>, {}),
     Answer(e.wechat_verify_url, <<"s", "u", "c", "c", "e", "s", "s">>,
            {TokenCookie(e, <<"g">>)})}

\* what Client::execute(..).await and Response::text().await can come to:
\* an answer; no answer (the request fails); an answer whose body cannot be
\* read
Outcomes(answers) ==
    answers \cup {[kind |-> "fail"]} \cup {[a EXCEPT !.kind = "badbody"] : a \in answers}

\* the jar once the client has received the response r to a request of e
Received(j, e, r) ==
    IF r.kind = "fail" THEN j ELSE StoreAll(j, e.cookie_url, r.cookies)

-----------------------------------------------------------------------------
(* The calls.  A call runs from one await to the next in one step; the     *)
(* response it is waiting for is the portal's choice.                      *)

AuthMethods == {"Credential", "Token", "Wechat"}
TokenValues == {<<"g">>, StaleToken}
Uuids == {<<"a">>, <<"b">>}
Randoms == {"0.25", "0.75"}

\* what the caller passed, and whether the session was online on each
\* endpoint when the call began
Call(method, e, username, password, token, uuid) ==
    [method |-> method, endpoint |-> e, username |-> username,
     password |-> password, token |-> token, uuid |-> uuid,
     direct_online |-> Online(jar, ENDPOINT_DIRECT),
     webvpn_online |-> Online(jar, ENDPOINT_WEBVPN)]

\* a call begins: it issues its first request and waits at `at`
Begin(c, request, at) ==
    /\ pc = "idle"
    /\ call' = c
    /\ log' = <<request>>
    /\ pc' = at
    /\ resp' = NoResp
    /\ lt' = <<>>
    /\ hdr' = None
    /\ ret' = NoRet
    /\ UNCHANGED <<held, pureVars, cloneVars, raceVars>>

\* Session::_check_status after the response: the token read from the
\* header of the jar, and the classifier
check_status_result(body, header, e) ==
    LET token == IF header.some
                 THEN find_cookie_value(header.v, e.cookie_name)
                 ELSE Value(None)
    IN  IF token.panic THEN Panic ELSE Ok(from_response_html(body, token.v))

\* Session::check_status and Session::check_status_via_webvpn
CheckStatus ==
    \E e \in Endpoints :
        /\ Begin(Call("check_status", e, <<>>, <<>>, <<>>, <<>>),
                 Get(e.login_url), "check_response")
        /\ UNCHANGED jar

\* Session::_check_status, from the response of its GET on
\* a status check that takes the injected cookie back out of the jar when
\* a Token login is rejected or fails
CheckStatusResponse_rollback ==
    /\ pc = "check_response"
    /\ \E r \in Outcomes(LoginPageAnswers(jar, call.endpoint)) :
        /\ resp' = r
        /\ IF r.kind # "ok"
           THEN hdr' = None /\ ret' = Err(ReqwestError)
           ELSE \E h \in Headers(Received(jar, call.endpoint, r),
                                 call.endpoint.cookie_url) :
                    /\ hdr' = h
                    /\ ret' = check_status_result(r.body, h, call.endpoint)
        /\ jar' = IF call.method = "Token" /\ ret' \in {Err(ReqwestError), Ok(Rejected)}
                  THEN {c \in Received(jar, call.endpoint, r) :
                            ~(c.scope = call.endpoint.cookie_url
                                /\ c.name = call.endpoint.cookie_name)}
                  ELSE Received(jar, call.endpoint, r)
    /\ pc' = "done"
    /\ UNCHANGED <<call, log, lt, held, pureVars, cloneVars, raceVars>>

CheckStatusResponse ==
    /\ pc = "check_response"
    /\ \E r \in Outcomes(LoginPageAnswers(jar, call.endpoint)) :
        /\ resp' = r
        /\ jar' = Received(jar, call.endpoint, r)
        /\ IF r.kind # "ok"
           THEN hdr' = None /\ ret' = Err(ReqwestError)
           ELSE \E h \in Headers(jar', call.endpoint.cookie_url) :
                    /\ hdr' = h
                    /\ ret' = check_status_result(r.body, h, call.endpoint)
    /\ pc' = "done"
    /\ UNCHANGED <<call, log, lt, held, pureVars, cloneVars, raceVars>>

\* the token of the status the caller holds: Token::new(status.get_token())
HeldTokens == IF held.some THEN {held.status.token} ELSE {}

\* a Token::execute that goes to the status check without touching the jar
TokenExecute_noinject ==
    \E e \in Endpoints, t \in TokenValues \cup HeldTokens :
        /\ Begin(Call("Token", e, <<>>, <<>>, t, <<>>),
                 Get(e.login_url), "check_response")
        /\ UNCHANGED jar

\* a Token::execute that empties the store before it injects the cookie
TokenExecute_reset ==
    \E e \in Endpoints, t \in TokenValues \cup HeldTokens :
        /\ Begin(Call("Token", e, <<>>, <<>>, t, <<>>),
                 Get(e.login_url), "check_response")
        /\ jar' = add_cookie_str({}, e.cookie_name \o <<EQ>> \o t, e.cookie_url)

\* Token::execute (session.login / login_via_webvpn with a Token), to the
\* await in _check_status
TokenExecute ==
    \E e \in Endpoints, t \in TokenValues \cup HeldTokens :
        /\ Begin(Call("Token", e, <<>>, <<>>, t, <<>>),
                 Get(e.login_url), "check_response")
        /\ jar' = add_cookie_str(jar, e.cookie_name \o <<EQ>> \o t, e.cookie_url)

\* a Wechat::execute that checks the status whatever the verify body is
wechat_verified_always(r) ==
    IF r.kind # "ok" THEN [next |-> "done", ret |-> Err(ReqwestError)]
    ELSE [next |-> "check"]

\* a Wechat::execute that turns a failed verify request into Rejected
wechat_verified_swallow(r) ==
    IF r.kind # "ok" THEN [next |-> "done", ret |-> Ok(Rejected)]
    ELSE IF Len(r.body) = 0 THEN [next |-> "done", ret |-> Ok(Rejected)]
    ELSE [next |-> "check"]

\* Wechat::execute after the verify response r
wechat_verified(r) ==
    IF r.kind # "ok" THEN [next |-> "done", ret |-> Err(ReqwestError)]
    ELSE IF Len(r.body) = 0 THEN [next |-> "done", ret |-> Ok(Rejected)]
    ELSE [next |-> "check"]

\* Wechat::execute, to its first await
WechatExecute ==
    \E e \in Endpoints, u \in Uuids, random \in Randoms :
        /\ Begin(Call("Wechat", e, <<>>, <<>>, <<>>, u),
                 Get(get_verify_url(u, e.wechat_verify_url, random)),
                 "verify_response")
        /\ UNCHANGED jar

\* Wechat::execute, from the verify response on
WechatVerifyResponse ==
    /\ pc = "verify_response"
    /\ \E r \in Outcomes(VerifyAnswers(call.endpoint)) :
        LET d == wechat_verified(r)
        IN  /\ resp' = r
            /\ jar' = Received(jar, call.endpoint, r)
            /\ IF d.next = "done"
               THEN pc' = "done" /\ ret' = d.ret /\ UNCHANGED log
               ELSE /\ pc' = "check_response"
                    /\ log' = Append(log, Get(call.endpoint.login_url))
                    /\ UNCHANGED ret
    /\ UNCHANGED <<call, lt, hdr, held, pureVars, cloneVars, raceVars>>

\* a Credential::execute without the check of the final url
credential_pre_unchecked(r, e, username, password) ==
    IF r.kind = "fail" THEN [next |-> "done", ret |-> Err(ReqwestError)]
    ELSE IF r.kind = "badbody" THEN [next |-> "done", ret |-> Err(ReqwestError)]
    ELSE LET m == RE(r.body)
         IN  IF ~m.some THEN [next |-> "done", ret |-> Err(ParsePageError(r.url))]
             ELSE [next |-> "post", lt |-> m.v,
                   request |-> build_login_request(username, password, e.login_url, m.v)]

\* a Credential::execute that reports the login url in ParsePageError
credential_pre_loginurl(r, e, username, password) ==
    IF r.kind = "fail" THEN [next |-> "done", ret |-> Err(ReqwestError)]
    ELSE IF ~StartsWith(r.url, e.login_url)
    THEN [next |-> "done", ret |-> Err(StatusConflict)]
    ELSE IF r.kind = "badbody" THEN [next |-> "done", ret |-> Err(ReqwestError)]
    ELSE LET m == RE(r.body)
         IN  IF ~m.some THEN [next |-> "done", ret |-> Err(ParsePageError(e.login_url))]
             ELSE [next |-> "post", lt |-> m.v,
                   request |-> build_login_request(username, password, e.login_url, m.v)]

\* a Credential::execute that tests the final url the wrong way round
credential_pre_reversed(r, e, username, password) ==
    IF r.kind = "fail" THEN [next |-> "done", ret |-> Err(ReqwestError)]
    ELSE IF ~StartsWith(e.login_url, r.url)
    THEN [next |-> "done", ret |-> Err(StatusConflict)]
    ELSE IF r.kind = "badbody" THEN [next |-> "done", ret |-> Err(ReqwestError)]
    ELSE LET m == RE(r.body)
         IN  IF ~m.some THEN [next |-> "done", ret |-> Err(ParsePageError(r.url))]
             ELSE [next |-> "post", lt |-> m.v,
                   request |-> build_login_request(username, password, e.login_url, m.v)]

\* Credential::execute after the response r to its GET of the login page:
\* the final url is tested before the body is read
credential_pre(r, e, username, password) ==
    IF r.kind = "fail" THEN [next |-> "done", ret |-> Err(ReqwestError)]
    ELSE IF ~StartsWith(r.url, e.login_url)
    THEN [next |-> "done", ret |-> Err(StatusConflict)]
    ELSE IF r.kind = "badbody" THEN [next |-> "done", ret |-> Err(ReqwestError)]
    ELSE LET m == RE(r.body)
         IN  IF ~m.some THEN [next |-> "done", ret |-> Err(ParsePageError(r.url))]
             ELSE [next |-> "post", lt |-> m.v,
                   request |-> build_login_request(username, password, e.login_url, m.v)]

\* a Credential::execute that clears the store before it logs in
CredentialExecute_clearing ==
    \E e \in Endpoints, u \in Usernames, p \in Passwords :
        /\ Begin(Call("Credential", e, u, p, <<>>, <<>>),
                 Get(e.login_url), "pre_response")
        /\ jar' = {}

\* Credential::execute, to its first await
CredentialExecute ==
    \E e \in Endpoints, u \in Usernames, p \in Passwords :
        /\ Begin(Call("Credential", e, u, p, <<>>, <<>>),
                 Get(e.login_url), "pre_response")
        /\ UNCHANGED jar

\* Credential::execute, from the response to the GET to the POST
CredentialPreResponse ==
    /\ pc = "pre_response"
    /\ \E r \in Outcomes(LoginPageAnswers(jar, call.endpoint)) :
        LET d == credential_pre(r, call.endpoint, call.username, call.password)
        IN  /\ resp' = r
            /\ jar' = Received(jar, call.endpoint, r)
            /\ IF d.next = "done"
               THEN pc' = "done" /\ ret' = d.ret /\ UNCHANGED <<log, lt>>
               ELSE /\ pc' = "post_response"
                    /\ lt' = d.lt
                    /\ log' = Append(log, d.request)
                    /\ UNCHANGED ret
    /\ UNCHANGED <<call, hdr, held, pureVars, cloneVars, raceVars>>

\* a Credential::execute that sends the login POST again when it failed
CredentialPostResponse_retry ==
    /\ pc = "post_response"
    /\ \E r \in Outcomes(LoginAnswers(call.endpoint, call.password)) :
        /\ resp' = r
        /\ jar' = Received(jar, call.endpoint, r)
        /\ IF r.kind # "ok"
           THEN IF Len(log) < 4
                THEN pc' = "post_response" /\ log' = Append(log, log[2]) /\ UNCHANGED ret
                ELSE pc' = "done" /\ ret' = Err(ReqwestError) /\ UNCHANGED log
           ELSE /\ pc' = "check_response"
                /\ log' = Append(log, Get(call.endpoint.login_url))
                /\ UNCHANGED ret
    /\ UNCHANGED <<call, lt, hdr, held, pureVars, cloneVars, raceVars>>

\* a Credential::execute that returns what the body of the POST response
\* classifies as, without the status check
CredentialPostResponse_classify ==
    /\ pc = "post_response"
    /\ \E r \in Outcomes(LoginAnswers(call.endpoint, call.password)) :
        /\ resp' = r
        /\ jar' = Received(jar, call.endpoint, r)
        /\ pc' = "done"
        /\ ret' = IF r.kind # "ok" THEN Err(ReqwestError)
                  ELSE Ok(from_response_html(r.body, None))
        /\ UNCHANGED log
    /\ UNCHANGED <<call, lt, hdr, held, pureVars, cloneVars, raceVars>>

\* Credential::execute, from the response to the POST to the status check
CredentialPostResponse ==
    /\ pc = "post_response"
    /\ \E r \in Outcomes(LoginAnswers(call.endpoint, call.password)) :
        /\ resp' = r
        /\ jar' = Received(jar, call.endpoint, r)
        /\ IF r.kind # "ok"
           THEN pc' = "done" /\ ret' = Err(ReqwestError) /\ UNCHANGED log
           ELSE /\ pc' = "check_response"
                /\ log' = Append(log, Get(call.endpoint.login_url))
                /\ UNCHANGED ret
    /\ UNCHANGED <<call, lt, hdr, held, pureVars, cloneVars, raceVars>>

\* what the caller holds once call c has returned r: the Active status of
\* a login, with the method and endpoint of that login and the header the
\* store gave its status check; nothing after any other result.  session
\* tells what the caller's session is to the one of that login: "same",
\* "touched" (the same, with cookies the caller added since), "fresh" (a
\* new one) or "other" (a new one with cookies the caller added)
Held(c, r, h) ==
    IF c.method \in AuthMethods /\ r.kind = "Ok" /\ r.status.variant = "Active"
    THEN [some |-> TRUE, method |-> c.method, endpoint |-> c.endpoint,
          status |-> r.status, header |-> h, session |-> "same"]
    ELSE None

\* the caller takes the result; the session is free for the next call
Return ==
    /\ pc = "done"
    /\ pc' = "idle"
    /\ held' = Held(call, ret, hdr)
    /\ UNCHANGED <<jar, call, log, resp, lt, hdr, ret, pureVars, cloneVars, raceVars>>

\* cookies a caller may put into the jar itself
ExtraCookies ==
    {[cookie |-> <<"o", "l", "d", "_", "C", "A", "S", "T", "G", "C", EQ, "1">>,
      url |-> ENDPOINT_DIRECT.cookie_url]}

\* session.cookie_jar().add_cookie_str(..), between two calls
AddCookie ==
    /\ pc = "idle"
    /\ \E c \in ExtraCookies : jar' = add_cookie_str(jar, c.cookie, c.url)
    /\ held' = IF held.some
               THEN [held EXCEPT !.session =
                        IF @ \in {"same", "touched"} THEN "touched" ELSE "other"]
               ELSE held
    /\ UNCHANGED <<pc, call, log, resp, lt, hdr, ret, pureVars, cloneVars, raceVars>>

\* Session::new() (with_client_builder: Jar::default()): the caller goes on
\* with a new Session and keeps the status the last login handed it
NewSession ==
    /\ pc = "idle"
    /\ jar' = {}
    /\ held' = IF held.some THEN [held EXCEPT !.session = "fresh"] ELSE held
    /\ UNCHANGED <<pc, call, log, resp, lt, hdr, ret, pureVars, cloneVars, raceVars>>

Init ==
    /\ input = [fn |-> "none"]
    /\ output = NotRun
    /\ FreshSession
    /\ NoSessions

Next ==
    \/ CheckStatus
    \/ CheckStatusResponse
    \/ TokenExecute
    \/ WechatExecute
    \/ WechatVerifyResponse
    \/ CredentialExecute
    \/ CredentialPreResponse
    \/ CredentialPostResponse
    \/ Return
    \/ AddCookie
    \/ NewSession

Spec == Init /\ [][Next]_vars

-----------------------------------------------------------------------------
(* The claims about the calls *)

\* whether a Credential login is the running (or the last) call
IsCredential == call.method = "Credential"

\* whether body holds "LT-", then one or more characters of the class,
\* then "-tpass"
HasLt(body) ==
    \E i \in 1..Len(body), j \in 1..Len(body) :
        /\ j >= i + 2
        /\ body[i] = LTOPEN
        /\ body[j] = TPASS
        /\ \A k \in (i + 1)..(j - 1) : body[k] \in LTClass

(* C3: Credential.execute fails with StatusConflict whenever the final     *)
(* url of its initial GET does not start with endpoint.login_url, whatever *)
(* the body holds (and whether or not it can be read); it then issues      *)
(* neither the login POST nor the status-check GET.                        *)
C3_RedirectIsStatusConflict ==
    [][(/\ pc = "pre_response"
        /\ resp'.kind \in {"ok", "badbody"}
        /\ ~StartsWith(resp'.url, call.endpoint.login_url))
        => (/\ pc' = "done"
            /\ ret' = Err(StatusConflict)
            /\ log' = <<Get(call.endpoint.login_url)>>)]_vars

\* the login page was answered from another url with a body that holds an
\* lt, and the call ended in StatusConflict after its one request
C3_Witness ==
    /\ IsCredential
    /\ pc = "done"
    /\ ret = Err(StatusConflict)
    /\ resp.kind = "ok"
    /\ HasLt(resp.body)
    /\ Len(log) = 1

(* C4: when the initial GET of Credential.execute ends at a url that       *)
(* starts with endpoint.login_url and the body holds no match of the lt    *)
(* pattern, the call fails with ParsePageError carrying the final url of   *)
(* that GET, and issues neither the login POST nor the status-check GET.   *)
C4_NoLtIsParsePageError ==
    [][(/\ pc = "pre_response"
        /\ resp'.kind = "ok"
        /\ StartsWith(resp'.url, call.endpoint.login_url)
        /\ ~HasLt(resp'.body))
        => (/\ pc' = "done"
            /\ ret' = Err(ParsePageError(resp'.url))
            /\ log' = <<Get(call.endpoint.login_url)>>)]_vars

\* the page without an lt came from a final url that is not login_url itself
C4_Witness ==
    /\ IsCredential
    /\ pc = "done"
    /\ resp.kind = "ok"
    /\ ret = Err(ParsePageError(resp.url))
    /\ resp.url # call.endpoint.login_url
    /\ Len(log) = 1

\* the form body the claim states, for the lt l
LoginForm(username, password, l) ==
    <<"rsa=">> \o username \o password \o l
        \o <<"&ul=">> \o Decimal(Len(username))
        \o <<"&pl=">> \o Decimal(Len(password))
        \o <<"&lt=">> \o l
        \o <<"&execution=e1s1&_eventId=submit">>

(* C5: for every username, password and login page, the login POST of      *)
(* Credential.execute goes to endpoint.login_url with the body             *)
(* rsa=<username><password><lt>&ul=<len(username)>&pl=<len(password)>      *)
(* &lt=<lt>&execution=e1s1&_eventId=submit, lt being the first match of    *)
(* the lt pattern in the login page and the same in both fields.           *)
C5_LoginPostBody ==
    [][(pc = "pre_response" /\ pc' = "post_response")
        => (/\ RE(resp'.body).some
            /\ lt' = RE(resp'.body).v
            /\ log' = <<Get(call.endpoint.login_url),
                        [method |-> "POST",
                         url |-> call.endpoint.login_url,
                         body |-> LoginForm(call.username, call.password,
                                            RE(resp'.body).v)]>>)]_vars

\* the POST is out for a page with two matches, served from a final url
\* other than login_url, for a username and password of different lengths
C5_Witness ==
    /\ IsCredential
    /\ pc = "post_response"
    /\ resp.body = LoginPageTwo
    /\ resp.url # call.endpoint.login_url
    /\ lt = <<LTOPEN, "7", TPASS, TPASS>>
    /\ Len(call.username) # Len(call.password)
    /\ log[2].method = "POST"

\* what a call that has come to its status check returns for the response
\* in resp
StatusCheckResult ==
    IF resp.kind = "ok"
    THEN check_status_result(resp.body, hdr, call.endpoint)
    ELSE Err(ReqwestError)

\* the same for the response that the step being taken leaves in resp
StatusCheckReturned ==
    IF resp'.kind = "ok"
    THEN check_status_result(resp'.body, hdr', call'.endpoint)
    ELSE Err(ReqwestError)

(* C6: Token.execute first writes the cookie <cookie_name>=<token> into    *)
(* the session's store for endpoint.cookie_url and only then runs the      *)
(* status check; the call issues exactly one request, the status-check     *)
(* GET, and returns the result of the status check.                        *)
C6_TokenInjectsThenChecks ==
    (call.method = "Token" /\ pc \in {"check_response", "done"}) =>
        /\ log = <<Get(call.endpoint.login_url)>>
        /\ pc = "check_response" =>
                [scope |-> call.endpoint.cookie_url,
                 name |-> call.endpoint.cookie_name,
                 value |-> call.token] \in jar
        /\ pc = "done" => ret = StatusCheckResult

\* a Token login through WebVPN on a session with no cookie but the
\* injected one came back Active with that token
C6_Witness ==
    /\ call.method = "Token"
    /\ call.endpoint = ENDPOINT_WEBVPN
    /\ pc = "done"
    /\ Cardinality(jar) = 1
    /\ ret = Ok(Active(call.token, <<"2", "0">>))

(* C7: in every poll of any sequence of Wechat execute calls, an empty     *)
(* verify body makes the call return Rejected, not an error, without the   *)
(* status-check request; a non-empty one makes it return exactly the       *)
(* result of the shared status check.                                      *)
C7_WechatPoll ==
    [][/\ (pc = "verify_response" /\ resp'.kind = "ok") =>
            IF Len(resp'.body) = 0
            THEN pc' = "done" /\ ret' = Ok(Rejected) /\ Len(log') = 1
            ELSE /\ pc' = "check_response"
                 /\ log' = Append(log, Get(call.endpoint.login_url))
       /\ (call.method = "Wechat" /\ pc = "check_response") =>
            (pc' = "done" /\ ret' = StatusCheckReturned /\ Len(log') = 2)]_vars

\* a poll that found the session already holding cookies and still got
\* the empty body
C7_Witness ==
    /\ call.method = "Wechat"
    /\ pc = "done"
    /\ resp.kind = "ok"
    /\ resp.body = <<>>
    /\ ret = Ok(Rejected)
    /\ Len(log) = 1
    /\ jar # {}

\* the value of the cookie of e's name that jar j holds for e's cookie_url
StoredToken(j, e) ==
    LET named == {c \in Matching(j, e.cookie_url) : c.name = e.cookie_name}
    IN  IF named = {} THEN None ELSE Some((CHOOSE c \in named : TRUE).value)

(* C8: check_status(endpoint) issues exactly one GET to the endpoint's     *)
(* status-check url, then reads the endpoint's named cookie from the       *)
(* store as it is after that response, and returns the classification of   *)
(* the body and that cookie's value (or none).                             *)
C8_CheckStatusReadsNamedCookie ==
    (call.method = "check_status" /\ pc = "done" /\ resp.kind = "ok") =>
        /\ log = <<Get(call.endpoint.login_url)>>
        /\ ret = Ok(from_response_html(resp.body, StoredToken(jar, call.endpoint)))

-----------------------------------------------------------------------------
(* The claims about sequences of calls on one session *)

\* whether every cookie of store j is still in store k, under its url and
\* name (its value may have been overwritten)
KeepsCookies(j, k) ==
    \A c \in j : \E d \in k : d.scope = c.scope /\ d.name = c.name

\* the pcs at which a call waits for a response
Waiting == {"pre_response", "post_response", "verify_response", "check_response"}

\* the last call of the caller was a Credential login on the direct
\* endpoint that returned Active, and the session is still that session
AfterActiveCredential ==
    /\ held.some
    /\ held.method = "Credential"
    /\ held.endpoint = ENDPOINT_DIRECT
    /\ held.session \in {"same", "touched"}

(* C11: after a Credential login on the direct endpoint has returned       *)
(* Active, the login page of a second Credential login on the direct       *)
(* endpoint in the same session is answered from a url that does not start *)
(* with login_url, and the call fails with StatusConflict after that one   *)
(* request, without the login POST; no step of a Credential login on the   *)
(* direct endpoint takes a cookie out of the store, and the session is     *)
(* still online after the second call.                                     *)
C11_RepeatedLoginConflicts ==
    [][/\ (/\ pc = "pre_response"
           /\ call.endpoint = ENDPOINT_DIRECT
           /\ AfterActiveCredential
           /\ resp'.kind # "fail")
            => (/\ ~StartsWith(resp'.url, ENDPOINT_DIRECT.login_url)
                /\ pc' = "done"
                /\ ret' = Err(StatusConflict)
                /\ log' = <<Get(ENDPOINT_DIRECT.login_url)>>
                /\ Online(jar', ENDPOINT_DIRECT))
       /\ (pc = "idle" /\ pc' = "pre_response") => jar' = jar
       /\ (IsCredential /\ call.endpoint = ENDPOINT_DIRECT /\ pc \in Waiting)
            => KeepsCookies(jar, jar')]_vars

\* the second login, straight after the first, ended in StatusConflict after
\* one request, and the session is still online
C11_Witness ==
    /\ IsCredential
    /\ call.endpoint = ENDPOINT_DIRECT
    /\ AfterActiveCredential
    /\ held.session = "same"
    /\ pc = "done"
    /\ ret = Err(StatusConflict)
    /\ Len(log) = 1
    /\ Online(jar, ENDPOINT_DIRECT)

\* the portal answers as it did for the login the caller holds the status
\* of: the account has not changed and the token is not replaced
SameAccount(r) ==
    /\ r.kind = "ok"
    /\ r.body \notin {ResetPage, BannedPage}
    /\ \A c \in r.cookies : c.value \notin GoodTokens

(* C12: when a login on an endpoint has returned Active{token, username},  *)
(* a check_status on the same session and endpoint with nothing in between *)
(* returns that same Active status, and a login with Token::new(token) on  *)
(* a fresh Session against the same endpoint returns Active with the same  *)
(* token, which is not empty, and the same username (the portal answering  *)
(* for the same account, and the store listing its cookies in the same     *)
(* order).                                                                 *)
C12_TokenRoundTrip ==
    [][/\ (/\ pc = "check_response"
           /\ call.method = "check_status"
           /\ held.some
           /\ held.session = "same"
           /\ call.endpoint = held.endpoint
           /\ SameAccount(resp')
           /\ hdr' = held.header)
            => ret' = Ok(held.status)
       /\ (/\ pc = "check_response"
           /\ call.method = "Token"
           /\ held.some
           /\ held.session = "fresh"
           /\ call.endpoint = held.endpoint
           /\ call.token = held.status.token
           /\ SameAccount(resp'))
            => (/\ ret' = Ok(held.status)
                /\ held.status.token # <<>>)]_vars

(* C14: no step of a login or check_status call takes a cookie out of the  *)
(* session's store, whatever the call comes to; a cookie that a step adds  *)
(* or overwrites is the one Token::execute injects or one the response     *)
(* sets.                                                                   *)
C14_NoCallResetsStore ==
    [][(pc # "idle" \/ pc' # "idle") =>
        /\ KeepsCookies(jar, jar')
        /\ \A d \in jar' \ jar :
            \/ /\ pc = "idle"
               /\ call'.method = "Token"
               /\ d = [scope |-> call'.endpoint.cookie_url,
                       name |-> call'.endpoint.cookie_name,
                       value |-> call'.token]
            \/ /\ pc \in Waiting
               /\ resp'.kind # "fail"
               /\ d.scope = call.endpoint.cookie_url
               /\ [name |-> d.name, value |-> d.value] \in resp'.cookies]_vars

\* a call that failed found three cookies in the store, put there by the
\* caller and by earlier logins on both endpoints, and left all three
C14_Witness ==
    /\ pc = "done"
    /\ ret.kind = "Err"
    /\ Cardinality(jar) = 3
    /\ Online(jar, ENDPOINT_DIRECT)
    /\ Online(jar, ENDPOINT_WEBVPN)

\* whether the call waiting at p for the response r of endpoint e meets a
\* transport failure: the request fails, or the body cannot be read where
\* the call reads it (Credential::execute returns StatusConflict for a
\* redirected login page before it reads the body)
TransportFailure(p, r, e) ==
    \/ r.kind = "fail"
    \/ /\ r.kind = "badbody"
       /\ ~(p = "pre_response" /\ ~StartsWith(r.url, e.login_url))

(* C15: when a request of a login or check_status call fails in the        *)
(* transport layer, the call ends there with that error: it returns no     *)
(* UserStatus and issues none of the later requests of its protocol.       *)
C15_TransportErrorReturned ==
    [][(pc \in Waiting /\ TransportFailure(pc, resp', call.endpoint))
        => (/\ pc' = "done"
            /\ ret' = Err(ReqwestError)
            /\ log' = log)]_vars

\* the login POST of a Credential login failed: the call returned the
\* error after two requests, without the status check
C15_Witness ==
    /\ IsCredential
    /\ pc = "done"
    /\ resp.kind = "fail"
    /\ ret = Err(ReqwestError)
    /\ Len(log) = 2
    /\ log[2].method = "POST"

\* the most requests a call of method m issues
MaxRequests(m) ==
    CASE m = "Credential" -> 3
      [] m = "Wechat" -> 2
      [] OTHER -> 1

\* the most requests a call waiting at p has still to get answered
Remaining(p) ==
    CASE p = "pre_response" -> 3
      [] p = "post_response" -> 2
      [] p = "verify_response" -> 2
      [] p = "check_response" -> 1
      [] OTHER -> 0

\* the requests of the running call are the steps of its protocol, each
\* once and in order
LogWithinProtocol ==
    call.method # "none" =>
        /\ Len(log) >= 1
        /\ Len(log) <= MaxRequests(call.method)
        /\ call.method \in {"check_status", "Token"}
            => log = <<Get(call.endpoint.login_url)>>
        /\ call.method = "Wechat" =>
            /\ \E random \in Randoms :
                log[1] = Get(get_verify_url(call.uuid,
                                            call.endpoint.wechat_verify_url, random))
            /\ Len(log) = 2 => log[2] = Get(call.endpoint.login_url)
        /\ IsCredential =>
            /\ log[1] = Get(call.endpoint.login_url)
            /\ Len(log) >= 2 =>
                log[2] = build_login_request(call.username, call.password,
                                             call.endpoint.login_url, lt)
            /\ Len(log) = 3 => log[3] = Get(call.endpoint.login_url)

(* C16: every execute and check_status call ends after a bounded number of *)
(* requests: check_status issues 1, Token.execute 1, Wechat.execute at     *)
(* most 2 (the verify request, then at most one status check) and          *)
(* Credential.execute at most 3; every response brings the call nearer its *)
(* end and makes it issue at most one request, the next of its protocol;   *)
(* none is issued again.                                                   *)
C16_BoundedRequests ==
    [][/\ LogWithinProtocol'
       /\ pc \in Waiting =>
            /\ Remaining(pc') < Remaining(pc)
            /\ \/ log' = log
               \/ pc' \in Waiting /\ Len(log') = Len(log) + 1
            /\ pc' = "done" => log' = log]_vars

\* a Credential login with a wrong password went through its three
\* requests and was rejected
C16_Witness ==
    /\ IsCredential
    /\ pc = "done"
    /\ Len(log) = 3
    /\ log[1] = log[3]
    /\ ret = Ok(Rejected)

(* C27: a Credential.execute whose GET and POST are answered issues three  *)
(* requests in this order: GET login_url, POST login_url, the status-check *)
(* GET; whatever the body of the POST response, the status check follows   *)
(* it, and the call returns what the status check makes of its own         *)
(* response: Active with the scraped username for a page without a title,  *)
(* Banned for the page with the banned title.                              *)
C27_CredentialSuccessPath ==
    [][IsCredential =>
        /\ (pc = "post_response" /\ resp'.kind = "ok") =>
                /\ pc' = "check_response"
                /\ ret' = ret
                /\ Len(log') = 3
                /\ log'[1] = Get(call.endpoint.login_url)
                /\ log'[2].method = "POST"
                /\ log'[2].url = call.endpoint.login_url
                /\ log'[3] = Get(call.endpoint.login_url)
        /\ pc = "check_response" =>
                /\ pc' = "done"
                /\ log' = log
                /\ Len(log) = 3
                /\ ret' = StatusCheckReturned
                /\ (resp'.kind = "ok" /\ ret'.kind = "Ok") =>
                        /\ resp'.body = PortalPage =>
                                /\ ret'.status.variant = "Active"
                                /\ ret'.status.username = <<"2", "0">>
                        /\ resp'.body = BannedPage =>
                                ret'.status.variant = "Banned"]_vars

\* a Credential login with the right password, whose POST was answered by
\* the portal page, a page without a title, returned Banned: what its
\* status check was answered
C27_Witness ==
    /\ IsCredential
    /\ pc = "done"
    /\ call.password = GoodPassword
    /\ Len(log) = 3
    /\ log[2].method = "POST"
    /\ resp.kind = "ok"
    /\ resp.body = BannedPage
    /\ ret.kind = "Ok"
    /\ ret.status.variant = "Banned"

-----------------------------------------------------------------------------
(* status.rs: the accessors of UserStatus, and SpecStatus, which applies   *)
(* them, in any order, to every UserStatus over a few tokens and usernames *)

\* UserStatus::is_active
is_active(status) == status.variant = "Active"

\* UserStatus::is_rejected
is_rejected(status) == status.variant = "Rejected"

\* UserStatus::get_username
get_username(status) ==
    IF status.variant = "Active" THEN Some(status.username) ELSE None

\* a get_token that takes an empty token for no token
get_token_nonempty(status) ==
    IF status.variant \in {"Active", "Banned", "NeedReset"} /\ status.token # <<>>
    THEN Some(status.token)
    ELSE None

\* UserStatus::get_token
get_token(status) ==
    CASE status.variant = "Active" -> Some(status.token)
      [] status.variant = "Banned" -> Some(status.token)
      [] status.variant = "NeedReset" -> Some(status.token)
      [] OTHER -> None

StatusTokens == {<<>>, <<"t">>}
StatusUsernames == {<<>>, <<"2", "0">>}

\* the values of the enum UserStatus
UserStatuses ==
    {Active(t, u) : t \in StatusTokens, u \in StatusUsernames}
        \cup {NeedReset(t) : t \in StatusTokens}
        \cup {Banned(t) : t \in StatusTokens}
        \cup {Rejected}

InitStatus ==
    /\ input \in [fn : {"accessors"}, status : UserStatuses]
    /\ output = NotRun
    /\ FreshSession
    /\ NoSessions

\* the results so far, and whether accessor name is among them
Results == IF output.done THEN output.v ELSE <<>>
Applied(name) == output.done /\ name \in DOMAIN output.v

\* the accessor name has returned value
Accessor(name, value) ==
    /\ input.fn = "accessors"
    /\ ~Applied(name)
    /\ output' = Returned(Results @@ (name :> value))
    /\ UNCHANGED <<input, protoVars, cloneVars, raceVars>>

IsActive == Accessor("is_active", is_active(input.status))
IsRejected == Accessor("is_rejected", is_rejected(input.status))
GetUsername == Accessor("get_username", get_username(input.status))
GetToken == Accessor("get_token", get_token(input.status))

NextStatus ==
    \/ IsActive
    \/ IsRejected
    \/ GetUsername
    \/ GetToken

SpecStatus == InitStatus /\ [][NextStatus]_vars

(* C17: for every UserStatus value, get_token returns none if and only if  *)
(* the status is Rejected, and else the token; get_username returns a      *)
(* value, the username, if and only if the status is Active; is_active is  *)
(* true exactly for Active and is_rejected exactly for Rejected, so the    *)
(* two are never both true.                                                *)
C17_Accessors ==
    input.fn = "accessors" =>
        LET variant == input.status.variant
        IN  /\ Applied("get_token") =>
                /\ ~output.v["get_token"].some <=> variant = "Rejected"
                /\ variant # "Rejected" =>
                        output.v["get_token"] = Some(input.status.token)
            /\ Applied("get_username") =>
                /\ output.v["get_username"].some <=> variant = "Active"
                /\ variant = "Active" =>
                        output.v["get_username"] = Some(input.status.username)
            /\ Applied("is_active") =>
                (output.v["is_active"] <=> variant = "Active")
            /\ Applied("is_rejected") =>
                (output.v["is_rejected"] <=> variant = "Rejected")
            /\ (Applied("is_active") /\ Applied("is_rejected")) =>
                ~(output.v["is_active"] /\ output.v["is_rejected"])

\* the four accessors applied to a Banned status with an empty token:
\* get_token returns the empty token, not none
C17_Witness ==
    /\ input.fn = "accessors"
    /\ input.status = Banned(<<>>)
    /\ \A name \in {"is_active", "is_rejected", "get_username", "get_token"} :
            Applied(name)
    /\ output.v["get_token"] = Some(<<>>)
    /\ ~output.v["get_username"].some

-----------------------------------------------------------------------------
(* webvpn.rs: encrypt_url.  A url is a sequence of chunks: the words       *)
(* "https" and "http" and single characters; the output begins with the    *)
(* literal "https://webvpn.neu.edu.cn/" and spells the hexadecimal text    *)
(* digit by digit.                                                         *)

\* longest url handed to encrypt_url, in characters after its first word
MaxUrl == 5

HTTPS == "https"
HTTP == "http"
COLON == ":"
SLASH == "/"
QM == "?"
DASH == "-"
WEBVPN_ROOT == "https://webvpn.neu.edu.cn/"

\* the printable ASCII characters, from the space (32) to the tilde (126);
\* the grave accent (96) is written as a word
ASCII ==
    <<" ", "!", "\"", "#", "$", "%", "&", "'", "(", ")", "*", "+", ",",
      "-", ".", "/", "0", "1", "2", "3", "4", "5", "6", "7", "8", "9",
      ":", ";", "<", "=", ">", "?", "@", "A", "B", "C", "D", "E", "F",
      "G", "H", "I", "J", "K", "L", "M", "N", "O", "P", "Q", "R", "S",
      "T", "U", "V", "W", "X", "Y", "Z", "[", "\\", "]", "^", "_", "grave",
      "a", "b", "c", "d", "e", "f", "g", "h", "i", "j", "k", "l", "m",
      "n", "o", "p", "q", "r", "s", "t", "u", "v", "w", "x", "y", "z",
      "{", "|", "}", "~">>

\* str::as_bytes of one chunk: the bytes of a scheme word, the ASCII code of
\* a character
ChunkBytes(chunk) ==
    CASE chunk = HTTPS -> <<104, 116, 116, 112, 115>>
      [] chunk = HTTP -> <<104, 116, 116, 112>>
      [] OTHER -> <<31 + (CHOOSE i \in DOMAIN ASCII : ASCII[i] = chunk)>>

\* str::as_bytes
RECURSIVE as_bytes(_)
as_bytes(text) ==
    IF text = <<>> THEN <<>> ELSE ChunkBytes(Head(text)) \o as_bytes(Tail(text))

\* static KEY: &[u8] = b"wrdvpnisthebest!"
KEY == <<119, 114, 100, 118, 112, 110, 105, 115, 116, 104, 101, 98, 101, 115, 116, 33>>

\* a ^ b on u8, from bit i upwards
RECURSIVE XorFrom(_, _, _)
XorFrom(a, b, i) ==
    IF i > 7 THEN 0
    ELSE (((a \div (2 ^ i)) + (b \div (2 ^ i))) % 2) * (2 ^ i) + XorFrom(a, b, i + 1)

Xor(a, b) == XorFrom(a, b, 0)

HexDigit(n) ==
    <<"0", "1", "2", "3", "4", "5", "6", "7", "8", "9",
      "a", "b", "c", "d", "e", "f">>[n + 1]

\* hex::encode
RECURSIVE hex_encode(_)
hex_encode(bytes) ==
    IF bytes = <<>> THEN <<>>
    ELSE <<HexDigit(Head(bytes) \div 16), HexDigit(Head(bytes) % 16)>>
            \o hex_encode(Tail(bytes))

\* Aes128 (FIPS 197): the substitution box
SBOX ==
    <<99, 124, 119, 123, 242, 107, 111, 197, 48, 1, 103, 43, 254, 215, 171, 118,
      202, 130, 201, 125, 250, 89, 71, 240, 173, 212, 162, 175, 156, 164, 114, 192,
      183, 253, 147, 38, 54, 63, 247, 204, 52, 165, 229, 241, 113, 216, 49, 21,
      4, 199, 35, 195, 24, 150, 5, 154, 7, 18, 128, 226, 235, 39, 178, 117,
      9, 131, 44, 26, 27, 110, 90, 160, 82, 59, 214, 179, 41, 227, 47, 132,
      83, 209, 0, 237, 32, 252, 177, 91, 106, 203, 190, 57, 74, 76, 88, 207,
      208, 239, 170, 251, 67, 77, 51, 133, 69, 249, 2, 127, 80, 60, 159, 168,
      81, 163, 64, 143, 146, 157, 56, 245, 188, 182, 218, 33, 16, 255, 243, 210,
      205, 12, 19, 236, 95, 151, 68, 23, 196, 167, 126, 61, 100, 93, 25, 115,
      96, 129, 79, 220, 34, 42, 144, 136, 70, 238, 184, 20, 222, 94, 11, 219,
      224, 50, 58, 10, 73, 6, 36, 92, 194, 211, 172, 98, 145, 149, 228, 121,
      231, 200, 55, 109, 141, 213, 78, 169, 108, 86, 244, 234, 101, 122, 174, 8,
      186, 120, 37, 46, 28, 166, 180, 198, 232, 221, 116, 31, 75, 189, 139, 138,
      112, 62, 181, 102, 72, 3, 246, 14, 97, 53, 87, 185, 134, 193, 29, 158,
      225, 248, 152, 17, 105, 217, 142, 148, 155, 30, 135, 233, 206, 85, 40, 223,
      140, 161, 137, 13, 191, 230, 66, 104, 65, 153, 45, 15, 176, 84, 187, 22>>

\* Aes128: multiplication by x in GF(2^8)
xtime(b) ==
    LET d == (b * 2) % 256 IN IF b >= 128 THEN Xor(d, 27) ELSE d

\* a ^ b byte by byte, for the length of a
RECURSIVE XorSeq(_, _)
XorSeq(a, b) ==
    IF a = <<>> THEN <<>>
    ELSE <<Xor(Head(a), Head(b))>> \o XorSeq(Tail(a), Tail(b))

RECURSIVE SubWord(_)
SubWord(w) ==
    IF w = <<>> THEN <<>> ELSE <<SBOX[Head(w) + 1]>> \o SubWord(Tail(w))

RotWord(w) == <<w[2], w[3], w[4], w[1]>>

RCON == <<1, 2, 4, 8, 16, 32, 64, 128, 27, 54>>

\* Aes128 key expansion: w holds the first i words of the schedule
RECURSIVE ExpandKey(_, _)
ExpandKey(w, i) ==
    IF Len(w) >= 44 THEN w
    ELSE LET temp == IF i % 4 = 0
                     THEN XorSeq(SubWord(RotWord(w[i])),
                                 <<RCON[i \div 4], 0, 0, 0>>)
                     ELSE w[i]
         IN  ExpandKey(Append(w, XorSeq(w[i - 3], temp)), i + 1)

\* the eleven round keys of Aes128::new(KEY), as 44 words
KEY_SCHEDULE ==
    ExpandKey(<<SubSeq(KEY, 1, 4), SubSeq(KEY, 5, 8),
                SubSeq(KEY, 9, 12), SubSeq(KEY, 13, 16)>>, 4)

RoundKey(r) ==
    KEY_SCHEDULE[4 * r + 1] \o KEY_SCHEDULE[4 * r + 2]
        \o KEY_SCHEDULE[4 * r + 3] \o KEY_SCHEDULE[4 * r + 4]

\* the state is 16 bytes, column after column
ShiftRows(s) ==
    <<s[1], s[6], s[11], s[16], s[5], s[10], s[15], s[4],
      s[9], s[14], s[3], s[8], s[13], s[2], s[7], s[12]>>

MixColumn(a) ==
    <<Xor(Xor(xtime(a[1]), Xor(xtime(a[2]), a[2])), Xor(a[3], a[4])),
      Xor(Xor(a[1], xtime(a[2])), Xor(Xor(xtime(a[3]), a[3]), a[4])),
      Xor(Xor(a[1], a[2]), Xor(xtime(a[3]), Xor(xtime(a[4]), a[4]))),
      Xor(Xor(Xor(xtime(a[1]), a[1]), a[2]), Xor(a[3], xtime(a[4])))>>

MixColumns(s) ==
    MixColumn(SubSeq(s, 1, 4)) \o MixColumn(SubSeq(s, 5, 8))
        \o MixColumn(SubSeq(s, 9, 12)) \o MixColumn(SubSeq(s, 13, 16))

\* Aes128 rounds r..10 on state s, a block of 16 bytes
RECURSIVE Rounds(_, _)
Rounds(s, r) ==
    IF Len(s) # 16 THEN s
    ELSE IF r = 10
    THEN XorSeq(ShiftRows(SubWord(s)), RoundKey(10))
    ELSE Rounds(XorSeq(MixColumns(ShiftRows(SubWord(s))), RoundKey(r)), r + 1)

\* Aes128::new(KEY).encrypt_block(block)
aes128_encrypt_block(block) == Rounds(XorSeq(block, RoundKey(0)), 1)

\* the first block of the CFB key stream: the IV, which is KEY, encrypted
KEYSTREAM == aes128_encrypt_block(KEY)

\* cfb_mode::Encryptor::encrypt: each block of buf is xored with the
\* encryption of the block of ciphertext before it, the first with that of
\* the IV
RECURSIVE cfb_blocks(_, _)
cfb_blocks(iv, buf) ==
    IF buf = <<>> THEN <<>>
    ELSE LET stream == IF iv = KEY THEN KEYSTREAM ELSE aes128_encrypt_block(iv)
             n == Min({16, Len(buf)})
             block == XorSeq(SubSeq(buf, 1, n), stream)
         IN  block \o (IF Len(buf) > 16
                       THEN cfb_blocks(block, SubSeq(buf, 17, Len(buf)))
                       ELSE <<>>)

\* Aes128Cfb::new(KEY, KEY).encrypt(buf)
cfb_encrypt(buf) == cfb_blocks(KEY, buf)

\* an encrypt that leaves out the hexadecimal text of the key
encrypt_nokey(plaintext) == hex_encode(cfb_encrypt(plaintext))

\* an encoding that puts the key after the ciphertext
encrypt_keylast(plaintext) == hex_encode(cfb_encrypt(plaintext)) \o hex_encode(KEY)

\* fn encrypt(plaintext: &[u8]) -> String
encrypt(plaintext) == hex_encode(KEY) \o hex_encode(cfb_encrypt(plaintext))

\* str::strip_prefix
strip_prefix(text, prefix) ==
    IF StartsWith(text, prefix)
    THEN Some(SubSeq(text, Len(prefix) + 1, Len(text)))
    ELSE None

\* str::split(sep).collect(): the pieces of text between the separators
RECURSIVE split(_, _)
split(text, sep) ==
    LET at == Find(text, <<sep>>)
    IN  IF ~at.some THEN <<text>>
        ELSE <<SubSeq(text, 1, at.v)>>
                \o split(SubSeq(text, at.v + 2, Len(text)), sep)

\* a scheme inference that leaves a leading "//" in place
strip_scheme_keepslashes(url) ==
    LET https == strip_prefix(url, <<HTTPS, COLON, SLASH, SLASH>>)
        http == strip_prefix(url, <<HTTP, COLON, SLASH, SLASH>>)
    IN  IF https.some THEN [scheme |-> HTTPS, url |-> https.v]
        ELSE IF http.some THEN [scheme |-> HTTP, url |-> http.v]
        ELSE [scheme |-> HTTP, url |-> url]

\* encrypt_url, "get scheme and url"
strip_scheme(url) ==
    LET https == strip_prefix(url, <<HTTPS, COLON, SLASH, SLASH>>)
        http == strip_prefix(url, <<HTTP, COLON, SLASH, SLASH>>)
        slashes == strip_prefix(url, <<SLASH, SLASH>>)
    IN  IF https.some THEN [scheme |-> HTTPS, url |-> https.v]
        ELSE IF http.some THEN [scheme |-> HTTP, url |-> http.v]
        ELSE IF slashes.some THEN [scheme |-> HTTP, url |-> slashes.v]
        ELSE [scheme |-> HTTP, url |-> url]

\* &s[..to] and &s[from..], indexes 0-based as in the source: a slice
\* whose index is past the end of s panics
slice_to(s, to) ==
    IF to > Len(s) THEN Panicked ELSE Value(SubSeq(s, 1, to))
slice_from(s, from) ==
    IF from > Len(s) THEN Panicked ELSE Value(SubSeq(s, from + 1, Len(s)))

\* a "get hostname and port" whose second slice begins one character late
split_port_late(url) ==
    LET segments == split(split(url, QM)[1], COLON)
    IN  IF Len(segments) > 1
        THEN LET hostname_len == Len(segments[1])
                 port == split(segments[2], SLASH)[1]
                 host == slice_to(url, hostname_len)
                 rest == slice_from(url, hostname_len + Len(port) + 2)
             IN  IF host.panic \/ rest.panic THEN Panicked
                 ELSE [panic |-> FALSE, url |-> host.v \o rest.v, port |-> Some(port)]
        ELSE [panic |-> FALSE, url |-> url, port |-> None]

\* encrypt_url, "get hostname and port": the url without the port, and the
\* port
split_port(url) ==
    LET segments == split(split(url, QM)[1], COLON)
    IN  IF Len(segments) > 1
        THEN LET hostname_len == Len(segments[1])
                 port == split(segments[2], SLASH)[1]
                 host == slice_to(url, hostname_len)
                 rest == slice_from(url, hostname_len + Len(port) + 1)
             IN  IF host.panic \/ rest.panic THEN Panicked
                 ELSE [panic |-> FALSE, url |-> host.v \o rest.v, port |-> Some(port)]
        ELSE [panic |-> FALSE, url |-> url, port |-> None]

\* encrypt_url, "encrypt": the index url.find('/') returns is within url
encrypted_url(url) ==
    LET index == Find(url, <<SLASH>>)
    IN  IF index.some
        THEN encrypt(as_bytes(slice_to(url, index.v).v))
                \o slice_from(url, index.v).v
        ELSE encrypt(as_bytes(url))

\* encrypt_url from "get hostname and port" on, for the scheme and the url
\* without it: the String, or a panic of one of the slices
assemble(scheme, url) ==
    LET hp == split_port(url)
    IN  IF hp.panic THEN Panicked
        ELSE IF hp.port.some
        THEN Value(<<WEBVPN_ROOT, scheme, DASH>> \o hp.port.v \o <<SLASH>>
                        \o encrypted_url(hp.url))
        ELSE Value(<<WEBVPN_ROOT, scheme, SLASH>> \o encrypted_url(hp.url))

\* pub fn encrypt_url(url: impl AsRef<str>) -> String
encrypt_url(url) ==
    LET s == strip_scheme(url) IN assemble(s.scheme, s.url)

-----------------------------------------------------------------------------
(* SpecEncrypt: encrypt_url applied to every url that is an optional first *)
(* word or scheme followed by at most MaxUrl characters, and to the urls   *)
(* of the table of test_encrypt_webvpn_url.                                *)

\* the table of test_encrypt_webvpn_url: a scheme word is one chunk,
\* every other character is a chunk of its own
TestTable ==
    <<[case |->
        <<HTTP>> \o <<":", "/", "/", "2", "1", "9", ".", "2", "1", "6", ".", "9", "6",
          ".", "4", "/", "e", "a", "m", "s", "/", "h", "o", "m", "e", "E",
          "x", "t", ".", "a", "c", "t", "i", "o", "n">>,
      expected |->
        <<WEBVPN_ROOT, HTTP>> \o <<"/", "7", "7", "7", "2", "6", "4", "7", "6", "7", "0", "6", "e",
          "6", "9", "7", "3", "7", "4", "6", "8", "6", "5", "6", "2", "6",
          "5", "7", "3", "7", "4", "2", "1", "a", "2", "a", "6", "1", "8",
          "d", "2", "7", "5", "6", "1", "3", "e", "1", "e", "2", "7", "5",
          "e", "c", "7", "f", "8", "/", "e", "a", "m", "s", "/", "h", "o",
          "m", "e", "E", "x", "t", ".", "a", "c", "t", "i", "o", "n">>],
     [case |->
        <<HTTP>> \o <<":", "/", "/", "2", "1", "9", ".", "2", "1", "6", ".", "9", "6",
          ".", "4", "/", "e", "a", "m", "s", "/">>,
      expected |->
        <<WEBVPN_ROOT, HTTP>> \o <<"/", "7", "7", "7", "2", "6", "4", "7", "6", "7", "0", "6", "e",
          "6", "9", "7", "3", "7", "4", "6", "8", "6", "5", "6", "2", "6",
          "5", "7", "3", "7", "4", "2", "1", "a", "2", "a", "6", "1", "8",
          "d", "2", "7", "5", "6", "1", "3", "e", "1", "e", "2", "7", "5",
          "e", "c", "7", "f", "8", "/", "e", "a", "m", "s", "/">>],
     [case |->
        <<HTTPS>> \o <<":", "/", "/", "p", "o", "r", "t", "a", "l", ".", "n", "e", "u",
          ".", "e", "d", "u", ".", "c", "n", "/">>,
      expected |->
        <<WEBVPN_ROOT, HTTPS>> \o <<"/", "7", "7", "7", "2", "6", "4", "7", "6", "7", "0", "6", "e",
          "6", "9", "7", "3", "7", "4", "6", "8", "6", "5", "6", "2", "6",
          "5", "7", "3", "7", "4", "2", "1", "e", "0", "f", "8", "5", "3",
          "8", "8", "2", "6", "3", "c", "2", "6", "5", "e", "7", "b", "1",
          "d", "c", "7", "a", "9", "9", "c", "4", "0", "6", "d", "3", "6",
          "9", "a", "/">>],
     [case |->
        <<"/", "/", "i", "p", "g", "w", ".", "n", "e", "u", ".", "e", "d",
          "u", ".", "c", "n">>,
      expected |->
        <<WEBVPN_ROOT, HTTP>> \o <<"/", "7", "7", "7", "2", "6", "4", "7", "6", "7", "0", "6", "e",
          "6", "9", "7", "3", "7", "4", "6", "8", "6", "5", "6", "2", "6",
          "5", "7", "3", "7", "4", "2", "1", "f", "9", "e", "7", "4", "6",
          "8", "b", "6", "9", "3", "e", "6", "d", "4", "5", "3", "0", "0",
          "d", "8", "d", "b", "9", "d", "6", "5", "6", "2", "d">>],
     [case |->
        <<HTTP>> \o <<":", "/", "/", "2", "1", "0", ".", "3", "0", ".", "2", "0", "0",
          ".", "1", "2", "8", ":", "8", "0", "8", "0", "/", "s", "y", "s",
          "t", "e", "m", "/", "c", "a", "s", "l", "o", "g", "i", "n", ".",
          "j", "s", "p">>,
      expected |->
        <<WEBVPN_ROOT, HTTP>> \o <<"-", "8", "0", "8", "0", "/", "7", "7", "7", "2", "6", "4", "7",
          "6", "7", "0", "6", "e", "6", "9", "7", "3", "7", "4", "6", "8",
          "6", "5", "6", "2", "6", "5", "7", "3", "7", "4", "2", "1", "a",
          "2", "a", "6", "1", "1", "d", "2", "7", "4", "6", "0", "2", "6",
          "0", "2", "2", "e", "5", "8", "c", "7", "f", "d", "c", "a", "0",
          "d", "/", "s", "y", "s", "t", "e", "m", "/", "c", "a", "s", "l",
          "o", "g", "i", "n", ".", "j", "s", "p">>],
     [case |->
        <<HTTP>> \o <<":", "/", "/", "2", "0", "2", ".", "1", "1", "8", ".", "8", ".",
          "7", ":", "8", "9", "9", "1", "/", "F", "/", "2", "9", "D", "K",
          "3", "K", "T", "4", "S", "V", "9", "V", "B", "R", "I", "5", "4",
          "8", "R", "8", "U", "D", "3", "M", "B", "I", "T", "9", "9", "1",
          "B", "X", "E", "4", "H", "L", "X", "E", "N", "C", "F", "E", "G",
          "E", "5", "4", "5", "5", "1", "T", "-", "2", "2", "1", "1", "1",
          "?", "f", "u", "n", "c", "=", "f", "i", "n", "d", "-", "b", "-",
          "0">>,
      expected |->
        <<WEBVPN_ROOT, HTTP>> \o <<"-", "8", "9", "9", "1", "/", "7", "7", "7", "2", "6", "4", "7",
          "6", "7", "0", "6", "e", "6", "9", "7", "3", "7", "4", "6", "8",
          "6", "5", "6", "2", "6", "5", "7", "3", "7", "4", "2", "1", "a",
          "2", "a", "7", "1", "3", "d", "2", "7", "6", "6", "1", "3", "0",
          "1", "e", "2", "6", "4", "6", "d", "e", "/", "F", "/", "2", "9",
          "D", "K", "3", "K", "T", "4", "S", "V", "9", "V", "B", "R", "I",
          "5", "4", "8", "R", "8", "U", "D", "3", "M", "B", "I", "T", "9",
          "9", "1", "B", "X", "E", "4", "H", "L", "X", "E", "N", "C", "F",
          "E", "G", "E", "5", "4", "5", "5", "1", "T", "-", "2", "2", "1",
          "1", "1", "?", "f", "u", "n", "c", "=", "f", "i", "n", "d", "-",
          "b", "-", "0">>]>>

UrlPrefixes ==
    {<<>>, <<HTTPS>>, <<HTTP>>,
     <<HTTPS, COLON, SLASH, SLASH>>, <<HTTP, COLON, SLASH, SLASH>>}
UrlChars == {COLON, SLASH, QM, "a", "8"}
Urls ==
    {p \o t : p \in UrlPrefixes, t \in SeqUpTo(UrlChars, MaxUrl)}
        \cup {TestTable[i].case : i \in DOMAIN TestTable}

InitEncrypt ==
    /\ input \in [fn : {"encrypt_url"}, url : Urls]
    /\ output = NotRun
    /\ FreshSession
    /\ NoSessions

EncryptUrl ==
    /\ input.fn = "encrypt_url"
    /\ ~output.done
    /\ LET r == encrypt_url(input.url)
       IN  output' = IF r.panic THEN [done |-> TRUE, panic |-> TRUE]
                     ELSE Returned(r.v)
    /\ UNCHANGED <<input, protoVars, cloneVars, raceVars>>

NextEncrypt == EncryptUrl

SpecEncrypt == InitEncrypt /\ [][NextEncrypt]_vars

\* the scheme the claim gives the url, and the url without the prefix the
\* claim strips
SchemeOf(url) ==
    IF StartsWith(url, <<HTTPS, COLON, SLASH, SLASH>>) THEN HTTPS ELSE HTTP
Stripped(url) ==
    IF StartsWith(url, <<HTTPS, COLON, SLASH, SLASH>>)
        \/ StartsWith(url, <<HTTP, COLON, SLASH, SLASH>>)
    THEN SubSeq(url, 5, Len(url))
    ELSE IF StartsWith(url, <<SLASH, SLASH>>) THEN SubSeq(url, 3, Len(url))
    ELSE url

(* C18: for every input, encrypt_url takes the scheme https and strips the *)
(* prefix when the input starts with "https://", takes http and strips the *)
(* prefix when it starts with "http://" or "//", and takes http and strips *)
(* nothing otherwise; the output is what the rest of the function makes of *)
(* that scheme and that remainder, and the scheme opens its first path     *)
(* segment after https://webvpn.neu.edu.cn/.                               *)
C18_SchemeInference ==
    (input.fn = "encrypt_url" /\ output.done) =>
        /\ Value(output.v) = assemble(SchemeOf(input.url), Stripped(input.url))
        /\ SubSeq(output.v, 1, 2) = <<WEBVPN_ROOT, SchemeOf(input.url)>>
        /\ output.v[3] \in {SLASH, DASH}

\* a url that opens with "//" and goes on with "//": one prefix is stripped,
\* the scheme is http
C18_Witness ==
    /\ output.done
    /\ input.url = <<SLASH, SLASH, SLASH, SLASH, "a">>
    /\ SubSeq(output.v, 1, 3) = <<WEBVPN_ROOT, HTTP, SLASH>>
    /\ SubSeq(output.v, Len(output.v) - 2, Len(output.v)) = <<SLASH, SLASH, "a">>

\* the 0-based index of the first "/" or "?" of url, or its length: the end
\* of host and port
AuthorityEnd(url) ==
    LET ends == {i \in 1..Len(url) : url[i] \in {SLASH, QM}}
    IN  IF ends = {} THEN Len(url) ELSE Min(ends) - 1

\* host and port of a url without its scheme, and what follows them
Authority(url) == SubSeq(url, 1, AuthorityEnd(url))
PathAndQuery(url) == SubSeq(url, AuthorityEnd(url) + 1, Len(url))
HasPort(url) == \E i \in 1..Len(Authority(url)) : Authority(url)[i] = COLON
HostOf(url) == split(Authority(url), COLON)[1]
PortOf(url) ==
    SubSeq(Authority(url), Len(HostOf(url)) + 2, Len(Authority(url)))

\* a url after its scheme that is a host, a port or none, and a path and
\* query or none: the host is letters and digits, the port digits
WellFormed(url) ==
    /\ HostOf(url) # <<>>
    /\ \A i \in 1..Len(HostOf(url)) : HostOf(url)[i] \in {"a", "8"}
    /\ HasPort(url) =>
        /\ PortOf(url) # <<>>
        /\ \A i \in 1..Len(PortOf(url)) : PortOf(url)[i] = "8"

(* C19: for every input url, when the host is followed by ":<port>" the    *)
(* port is the text up to the next "/" (or the end of the part before the  *)
(* query), the first segment of the output is <scheme>-<port> and the rest *)
(* of the output is made of the url without ":<port>"; when the url has no *)
(* port, the first segment is <scheme> alone and the rest is made of the   *)
(* whole url.                                                              *)
C19_HostAndPort ==
    (input.fn = "encrypt_url" /\ output.done /\ WellFormed(Stripped(input.url))) =>
        LET scheme == SchemeOf(input.url)
            url == Stripped(input.url)
        IN  IF HasPort(url)
            THEN output.v = <<WEBVPN_ROOT, scheme, DASH>> \o PortOf(url) \o <<SLASH>>
                                \o encrypted_url(HostOf(url) \o PathAndQuery(url))
            ELSE output.v = <<WEBVPN_ROOT, scheme, SLASH>> \o encrypted_url(url)

(* C20: for every input url, the output ends with the encrypted hostname   *)
(* followed by the path and query of the input, copied as they are: only   *)
(* the hostname is encrypted, and no part of the path or the query is      *)
(* encrypted, dropped or altered.                                          *)
C20_OnlyHostnameEncrypted ==
    (input.fn = "encrypt_url" /\ output.done /\ WellFormed(Stripped(input.url))) =>
        LET url == Stripped(input.url)
            tail == encrypt(as_bytes(HostOf(url))) \o PathAndQuery(url)
        IN  /\ Len(output.v) >= Len(tail)
            /\ SubSeq(output.v, Len(output.v) - Len(tail) + 1, Len(output.v)) = tail

\* C21: encrypt_url maps every url of the table of test_encrypt_webvpn_url
\* to the text the table expects, character for character: among them
\* http://219.216.96.4/eams/homeExt.action, //ipgw.neu.edu.cn and
\* http://210.30.200.128:8080/system/caslogin.jsp.
C21_LiteralVectors ==
    \A i \in DOMAIN TestTable :
        (output.done /\ input.url = TestTable[i].case)
            => output.v = TestTable[i].expected

\* the url with a port has been encrypted to the expected text
C21_Witness ==
    /\ output.done
    /\ input.url = TestTable[5].case
    /\ output.v = TestTable[5].expected
    /\ Find(output.v, <<DASH, "8", "0", "8", "0", SLASH>>).some

\* the 32 hex characters the claim gives for the key
KeyHex ==
    <<"7", "7", "7", "2", "6", "4", "7", "6", "7", "0", "6", "e", "6", "9", "7", "3", "7", "4", "6", "8", "6", "5", "6", "2", "6", "5", "7", "3", "7", "4", "2", "1">>

HexChars ==
    {"0", "1", "2", "3", "4", "5", "6", "7", "8", "9", "a", "b", "c", "d", "e", "f"}

\* what encrypt_url puts before the encoded hostname, and the hostname it
\* encodes: the url without scheme and port, up to its first "/"
TokenHead(url) ==
    LET s == strip_scheme(url)
        hp == split_port(s.url)
    IN  IF hp.port.some
        THEN <<WEBVPN_ROOT, s.scheme, DASH>> \o hp.port.v \o <<SLASH>>
        ELSE <<WEBVPN_ROOT, s.scheme, SLASH>>
EncodedHost(url) ==
    LET u == split_port(strip_scheme(url).url).url
        index == Find(u, <<SLASH>>)
    IN  IF index.some THEN SubSeq(u, 1, index.v) ELSE u

(* C31: the encoded hostname in the output of encrypt_url is hex(key)      *)
(* followed by hex(ciphertext): it begins with the 32 characters           *)
(* 77726476706e69737468656265737421, then come exactly two hex characters  *)
(* for each byte of the hostname, and after them the output goes on with   *)
(* "/" or ends; so for every hostname, the empty one included.             *)
C31_KeyThenCiphertext ==
    (input.fn = "encrypt_url" /\ output.done /\ "v" \in DOMAIN output) =>
        LET from == Len(TokenHead(input.url))
            bytes == Len(as_bytes(EncodedHost(input.url)))
            to == from + 32 + 2 * bytes
        IN  /\ Len(output.v) >= to
            /\ SubSeq(output.v, from + 1, from + 32) = KeyHex
            /\ \A i \in (from + 33)..to : output.v[i] \in HexChars
            /\ Len(output.v) > to => output.v[to + 1] = SLASH
            /\ encrypt(<<>>) = KeyHex

\* the hostname https, five bytes in one word, has been encoded, and so is
\* the empty hostname
C31_Witness ==
    /\ output.done
    /\ input.url = <<HTTPS>>
    /\ output.v = <<WEBVPN_ROOT, HTTP, SLASH>> \o KeyHex
                    \o <<"f", "8", "e", "3", "5", "5", "8", "c", "3", "4">>
    /\ encrypt_url(<<>>) = Value(<<WEBVPN_ROOT, HTTP, SLASH>> \o KeyHex)

(* C33: encrypt_url is total: for every input (the empty one, a scheme     *)
(* alone, several ":", a ":" with nothing after it, a "?" before any "/")  *)
(* it returns a String, no slice being out of range, and the String        *)
(* begins with https://webvpn.neu.edu.cn/.                                 *)
C33_Total ==
    (input.fn = "encrypt_url" /\ output.done) =>
        /\ "v" \in DOMAIN output
        /\ "panic" \notin DOMAIN output
        /\ Len(output.v) >= 3
        /\ output.v[1] = WEBVPN_ROOT

\* a url that ends with the ":" of an empty port after a "?"-free host has
\* been encrypted: the second slice begins at the very end of the url
C33_Witness ==
    /\ output.done
    /\ input.url = <<HTTP, COLON, SLASH, SLASH, "a", COLON>>
    /\ output.v = <<WEBVPN_ROOT, HTTP, DASH, SLASH>> \o encrypt(as_bytes(<<"a">>))

-----------------------------------------------------------------------------
(* SpecClone: Session values and the Jar allocations behind them.  A       *)
(* Session holds two references to a Jar: the one its Client was built     *)
(* with (cookie_provider) and its cookie_jar field.  Here a login or a     *)
(* status check is one step; its requests and responses are those of the   *)
(* calls above.                                                            *)

\* most Session values alive at once
MaxSessions == 2

\* the endpoint the Session values are used on
CloneEndpoints == {ENDPOINT_DIRECT}

NothingSeen ==
    [op |-> "none", session |-> 0, endpoint |-> ENDPOINT_DIRECT, token |-> <<>>,
     sent |-> {}, ret |-> NoRet, last_login |-> 0]

\* what an operation through Session value h left to see: the cookies its
\* status-check request carried and what it returned; last_login is the
\* Session value the last Token login went through
Seen(op, h, e, token, sent, r, last) ==
    [op |-> op, session |-> h, endpoint |-> e, token |-> token,
     sent |-> sent, ret |-> r, last_login |-> last]

InitClone ==
    /\ input = [fn |-> "none"]
    /\ output = NotRun
    /\ FreshSession
    /\ sessions = <<>>
    /\ stores = <<>>
    /\ seen = NothingSeen
    /\ NoTasks

\* a Session::new that hands every Session the one Jar of the process
SessionNew_shared ==
    /\ Len(sessions) < MaxSessions
    /\ stores' = IF stores = <<>> THEN <<{}>> ELSE stores
    /\ sessions' = Append(sessions, [client |-> 1,
                                     cookie_jar |-> 1,
                                     origin |-> Len(sessions) + 1])
    /\ seen' = Seen("new", Len(sessions) + 1, ENDPOINT_DIRECT, <<>>, {}, NoRet,
                    seen.last_login)
    /\ UNCHANGED <<pureVars, protoVars, raceVars>>

\* Session::with_client_builder: one new Jar, handed to the Client as its
\* cookie provider and kept in cookie_jar
SessionNew ==
    /\ Len(sessions) < MaxSessions
    /\ stores' = Append(stores, {})
    /\ sessions' = Append(sessions, [client |-> Len(stores) + 1,
                                     cookie_jar |-> Len(stores) + 1,
                                     origin |-> Len(sessions) + 1])
    /\ seen' = Seen("new", Len(sessions) + 1, ENDPOINT_DIRECT, <<>>, {}, NoRet,
                    seen.last_login)
    /\ UNCHANGED <<pureVars, protoVars, raceVars>>

\* a clone that copies the Jar instead of the reference to it
SessionClone_deep ==
    /\ Len(sessions) < MaxSessions
    /\ \E h \in 1..Len(sessions) :
        /\ stores' = Append(stores, stores[sessions[h].cookie_jar])
        /\ sessions' = Append(sessions, [client |-> Len(stores) + 1,
                                         cookie_jar |-> Len(stores) + 1,
                                         origin |-> sessions[h].origin])
        /\ seen' = Seen("clone", Len(sessions) + 1, ENDPOINT_DIRECT, <<>>, {}, NoRet,
                        seen.last_login)
    /\ UNCHANGED <<pureVars, protoVars, raceVars>>

\* #[derive(Clone)] for Session: Client::clone and Arc::clone copy the
\* references, no Jar is made
SessionClone ==
    /\ Len(sessions) < MaxSessions
    /\ \E h \in 1..Len(sessions) :
        /\ sessions' = Append(sessions, [client |-> sessions[h].client,
                                         cookie_jar |-> sessions[h].cookie_jar,
                                         origin |-> sessions[h].origin])
        /\ seen' = Seen("clone", Len(sessions) + 1, ENDPOINT_DIRECT, <<>>, {}, NoRet,
                        seen.last_login)
    /\ UNCHANGED <<stores, pureVars, protoVars, raceVars>>

\* Session::_check_status through Session value h, the stores being st: the
\* GET goes through the Client, with the cookies of its Jar; the token is
\* read from cookie_jar
CheckThrough(st, h, e, op, token, last) ==
    LET s == sessions[h]
    IN  \E r \in Outcomes(LoginPageAnswers(st[s.client], e)) :
            /\ stores' = [st EXCEPT ![s.client] = Received(@, e, r)]
            /\ \E header \in Headers(stores'[s.cookie_jar], e.cookie_url) :
                seen' = Seen(op, h, e, token, Matching(st[s.client], e.cookie_url),
                             IF r.kind = "ok"
                             THEN check_status_result(r.body, header, e)
                             ELSE Err(ReqwestError),
                             last)

\* Session::check_status and check_status_via_webvpn through a Session value
SessionCheckStatus ==
    /\ \E h \in 1..Len(sessions), e \in CloneEndpoints :
            CheckThrough(stores, h, e, "check_status", <<>>, seen.last_login)
    /\ UNCHANGED <<sessions, pureVars, protoVars, raceVars>>

\* Token::execute through a Session value: the cookie goes into cookie_jar
SessionTokenLogin ==
    /\ \E h \in 1..Len(sessions), e \in CloneEndpoints, t \in TokenValues :
            CheckThrough([stores EXCEPT ![sessions[h].cookie_jar] =
                            add_cookie_str(@, e.cookie_name \o <<EQ>> \o t, e.cookie_url)],
                         h, e, "login", t, h)
    /\ UNCHANGED <<sessions, pureVars, protoVars, raceVars>>

NextClone ==
    \/ SessionNew
    \/ SessionClone
    \/ SessionCheckStatus
    \/ SessionTokenLogin

SpecClone == InitClone /\ [][NextClone]_vars

\* whether Session values a and b are one Session and its clones
SameSession(ss, a, b) == ss[a].origin = ss[b].origin

(* C13: a Session and every clone of it use one cookie store: the Client   *)
(* and the cookie_jar field of each of them refer to the same Jar; the     *)
(* status-check request of a login or check_status through any of them     *)
(* carries the cookies that the store of every other of them holds for the *)
(* url, with the cookie a Token login injects; a Session just created has  *)
(* an empty store.                                                         *)
C13_ClonesShareStore ==
    [][/\ \A a, b \in 1..Len(sessions') :
            SameSession(sessions', a, b) =>
                /\ sessions'[a].client = sessions'[b].cookie_jar
                /\ stores'[sessions'[a].client] = stores'[sessions'[b].cookie_jar]
       /\ seen'.op = "new" =>
            /\ stores'[sessions'[seen'.session].cookie_jar] = {}
            /\ stores'[sessions'[seen'.session].client] = {}
       /\ seen'.op \in {"check_status", "login"} =>
            \A b \in 1..Len(sessions) :
                SameSession(sessions, seen'.session, b) =>
                    LET e == seen'.endpoint
                        before == stores[sessions[b].cookie_jar]
                        store == IF seen'.op = "login"
                                 THEN add_cookie_str(before,
                                        e.cookie_name \o <<EQ>> \o seen'.token,
                                        e.cookie_url)
                                 ELSE before
                    IN  seen'.sent = Matching(store, e.cookie_url)]_vars

\* a check_status through one Session value returned Active with the token
\* that a Token login through another value, a clone, had injected
C13_Witness ==
    /\ Len(sessions) = 2
    /\ seen.op = "check_status"
    /\ seen.last_login # 0
    /\ seen.last_login # seen.session
    /\ SameSession(sessions, seen.last_login, seen.session)
    /\ seen.ret = Ok(Active(<<"g">>, <<"2", "0">>))
    /\ seen.sent = {[scope |-> seen.endpoint.cookie_url,
                     name |-> seen.endpoint.cookie_name, value |-> <<"g">>]}

(* C29: two Sessions created separately, neither a clone of the other,     *)
(* share nothing: their Clients and cookie_jar fields refer to different   *)
(* Jars; a login (with the cookie it injects) or check_status through one  *)
(* leaves the store of the other as it was; and the request of a status    *)
(* check carries the cookies of the store of its own Session alone, which  *)
(* with the response is all its result is made of.                         *)
C29_SeparateSessionsShareNothing ==
    [][/\ \A a, b \in 1..Len(sessions') :
            ~SameSession(sessions', a, b) =>
                {sessions'[a].client, sessions'[a].cookie_jar}
                    \cap {sessions'[b].client, sessions'[b].cookie_jar} = {}
       /\ seen'.op \in {"check_status", "login"} =>
            /\ \A b \in 1..Len(sessions) :
                    ~SameSession(sessions, seen'.session, b) =>
                        /\ stores'[sessions[b].cookie_jar]
                                = stores[sessions[b].cookie_jar]
                        /\ stores'[sessions[b].client] = stores[sessions[b].client]
            /\ seen'.sent \subseteq
                    stores[sessions[seen'.session].cookie_jar]
                        \cup {[scope |-> seen'.endpoint.cookie_url,
                               name |-> seen'.endpoint.cookie_name,
                               value |-> seen'.token]}
            /\ seen'.op = "check_status" =>
                    seen'.sent = Matching(stores[sessions[seen'.session].client],
                                          seen'.endpoint.cookie_url)]_vars

\* after a Token login through one Session had left the token in its
\* store, a check_status through a Session created separately sent no
\* cookie and returned Rejected
C29_Witness ==
    /\ Len(sessions) = 2
    /\ seen.op = "check_status"
    /\ seen.last_login # 0
    /\ ~SameSession(sessions, seen.last_login, seen.session)
    /\ seen.sent = {}
    /\ seen.ret = Ok(Rejected)
    /\ stores[sessions[seen.session].cookie_jar] = {}
    /\ [scope |-> seen.endpoint.cookie_url,
        name |-> seen.endpoint.cookie_name,
        value |-> <<"g">>] \in stores[sessions[seen.last_login].cookie_jar]

-----------------------------------------------------------------------------
(* SpecRace: two tasks, each running Token::execute through one of two     *)
(* clones of a Session, on the same endpoint and with different tokens.    *)
(* Nothing in Token::execute or Session::_check_status holds a lock from   *)
(* one statement to the next: the Jar locks inside each of its calls, and  *)
(* the tasks of a multi-threaded runtime run side by side.  A task         *)
(* therefore steps from the injection to the request (where the Client     *)
(* reads the Jar for the Cookie header), to the response (where the        *)
(* Client stores its Set-Cookie), to the read of the token, and the other  *)
(* task may step in between any two of these.                              *)

Tasks == {1, 2}

\* the token of each task
RaceTokens == <<<<"g">>, StaleToken>>

\* the endpoint both tasks log in to
RaceEndpoint == ENDPOINT_DIRECT

\* a task before its first poll
Spawned == [pc |-> "start", sent |-> {}, body |-> <<>>, ret |-> NoRet]

\* a Session and its clone, one task for each
InitRace ==
    /\ input = [fn |-> "none"]
    /\ output = NotRun
    /\ FreshSession
    /\ sessions = <<[client |-> 1, cookie_jar |-> 1, origin |-> 1],
                    [client |-> 1, cookie_jar |-> 1, origin |-> 1]>>
    /\ stores = <<{}>>
    /\ seen = NothingSeen
    /\ tasks = <<Spawned, Spawned>>
    /\ events = <<>>
    /\ written = None
    /\ orders = {}

\* the token cookie of the endpoint in jar j, if any
TokenIn(j) ==
    LET cs == {c \in Matching(j, RaceEndpoint.cookie_url) :
                    c.name = RaceEndpoint.cookie_name}
    IN  IF cs = {} THEN None ELSE Some((CHOOSE c \in cs : TRUE).value)

\* an injection that leaves a token already in the store alone
TokenExecuteInject_keepfirst ==
    \E k \in Tasks :
        /\ tasks[k].pc = "start"
        /\ stores' = [stores EXCEPT ![sessions[k].cookie_jar] =
                        IF TokenIn(@).some THEN @
                        ELSE add_cookie_str(@, RaceEndpoint.cookie_name \o <<EQ>>
                                                    \o RaceTokens[k],
                                            RaceEndpoint.cookie_url)]
        /\ tasks' = [tasks EXCEPT ![k].pc = "injected"]
        /\ events' = Append(events, <<k, "inject">>)
        /\ written' = Some(RaceTokens[k])
        /\ UNCHANGED <<orders, sessions, seen, pureVars, protoVars>>

\* Token::execute, its first statement: the cookie goes into cookie_jar
TokenExecuteInject ==
    \E k \in Tasks :
        /\ tasks[k].pc = "start"
        /\ stores' = [stores EXCEPT ![sessions[k].cookie_jar] =
                        add_cookie_str(@, RaceEndpoint.cookie_name \o <<EQ>>
                                               \o RaceTokens[k],
                                       RaceEndpoint.cookie_url)]
        /\ tasks' = [tasks EXCEPT ![k].pc = "injected"]
        /\ events' = Append(events, <<k, "inject">>)
        /\ written' = Some(RaceTokens[k])
        /\ UNCHANGED <<orders, sessions, seen, pureVars, protoVars>>

\* Session::_check_status, the request: the Client reads its Jar for the
\* Cookie header and sends the GET
CheckStatusSend ==
    \E k \in Tasks :
        /\ tasks[k].pc = "injected"
        /\ tasks' = [tasks EXCEPT
                        ![k].pc = "sent",
                        ![k].sent = Matching(stores[sessions[k].client],
                                             RaceEndpoint.cookie_url)]
        /\ events' = Append(events, <<k, "check">>)
        /\ UNCHANGED <<stores, written, orders, sessions, seen, pureVars, protoVars>>

\* Session::_check_status, the response: the Client stores its cookies; a
\* failed request or an unreadable body ends the call
CheckStatusReceive ==
    \E k \in Tasks :
        /\ tasks[k].pc = "sent"
        /\ \E r \in Outcomes(LoginPageAnswers(tasks[k].sent, RaceEndpoint)) :
            /\ stores' = [stores EXCEPT ![sessions[k].client] =
                            Received(@, RaceEndpoint, r)]
            /\ written' = IF r.kind # "fail" /\ r.cookies # {}
                          THEN TokenIn(stores'[sessions[k].client])
                          ELSE written
            /\ tasks' = IF r.kind = "ok"
                        THEN [tasks EXCEPT ![k].pc = "received", ![k].body = r.body]
                        ELSE [tasks EXCEPT ![k].pc = "done",
                                           ![k].ret = Err(ReqwestError)]
        /\ UNCHANGED <<events, orders, sessions, seen, pureVars, protoVars>>

\* Session::_check_status, the end: the token is read from cookie_jar and
\* handed to the classifier with the body
CheckStatusRead ==
    \E k \in Tasks :
        /\ tasks[k].pc = "received"
        /\ \E header \in Headers(stores[sessions[k].cookie_jar],
                                 RaceEndpoint.cookie_url) :
            tasks' = [tasks EXCEPT
                        ![k].pc = "done",
                        ![k].ret = check_status_result(tasks[k].body, header,
                                                       RaceEndpoint)]
        /\ UNCHANGED <<stores, events, written, orders, sessions, seen,
                       pureVars, protoVars>>

\* both calls have returned: the order of this run is noted, and a new
\* Session, its clone and two new tasks begin the next run
TasksJoined ==
    /\ \A k \in Tasks : tasks[k].pc = "done"
    /\ orders' = orders \cup {events}
    /\ tasks' = <<Spawned, Spawned>>
    /\ events' = <<>>
    /\ written' = None
    /\ stores' = <<{}>>
    /\ UNCHANGED <<sessions, seen, pureVars, protoVars>>

NextRace ==
    \/ TokenExecuteInject
    \/ CheckStatusSend
    \/ CheckStatusReceive
    \/ CheckStatusRead
    \/ TasksJoined

SpecRace == InitRace /\ [][NextRace]_vars

\* the orders of the two injections and the two status checks in which
\* each task injects before it checks
Interleavings ==
    LET Events == Tasks \X {"inject", "check"}
    IN  {o \in [1..4 -> Events] :
            /\ \A ev \in Events : \E i \in 1..4 : o[i] = ev
            /\ \A k \in Tasks : \A i, j \in 1..4 :
                    (o[i] = <<k, "inject">> /\ o[j] = <<k, "check">>) => i < j}

\* the token a returned status carries, if it carries one
StatusToken(r) ==
    IF r.kind = "Ok" /\ r.status.variant # "Rejected"
    THEN Some(r.status.token)
    ELSE None

(* C30: two Token logins on clones of one Session are not serialized.  An  *)
(* injection overwrites the token in the shared store whatever the other   *)
(* task has done; a status check hands the classifier the token the store  *)
(* holds when it reads it, whichever task wrote it; when both calls have   *)
(* returned the store holds the token written last; and the runs go in no  *)
(* order but the interleavings of inject-then-check of each task.          *)
C30_LoginsRace ==
    [][/\ \A k \in Tasks :
            /\ (tasks[k].pc = "start" /\ tasks'[k].pc = "injected") =>
                    TokenIn(stores'[sessions[k].cookie_jar]) = Some(RaceTokens[k])
            /\ (tasks[k].pc = "received" /\ tasks'[k].pc = "done") =>
                    /\ tasks'[k].ret.kind = "Ok"
                    /\ tasks'[k].ret.status.variant # "Rejected" =>
                          StatusToken(tasks'[k].ret)
                                = TokenIn(stores[sessions[k].cookie_jar])
       /\ (\A k \in Tasks : tasks'[k].pc = "done") =>
            /\ TokenIn(stores'[1]) = written'
            /\ events' \in Interleavings
       /\ orders' \subseteq Interleavings]_vars

\* every one of the six interleavings has been run, and in the run just
\* ended the task with the stale token, which injected first, returned
\* Active carrying the token the other task injected
C30_Witness ==
    /\ orders = Interleavings
    /\ \A k \in Tasks : tasks[k].pc = "done"
    /\ tasks[2].ret.kind = "Ok"
    /\ tasks[2].ret.status.variant = "Active"
    /\ StatusToken(tasks[2].ret) = Some(RaceTokens[1])
    /\ StatusToken(tasks[1].ret) = Some(RaceTokens[1])
    /\ events = <<<<2, "inject">>, <<1, "inject">>, <<2, "check">>, <<1, "check">>>>

-----------------------------------------------------------------------------
(* SpecBuild: Session::with_client_builder with a closure that customizes  *)
(* the ClientBuilder, and the use of the Session it returns.  Of the       *)
(* ClientBuilder only the cookie store is kept: none, or a Jar.            *)

\* most Session values built by with_client_builder
MaxBuilt == 1

\* ClientBuilder::new(): no cookie store
ClientBuilder_new == [cookie_store |-> None]

\* ClientBuilder::cookie_provider(jar)
cookie_provider(builder, provider) ==
    [builder EXCEPT !.cookie_store = Some(provider)]

\* ClientBuilder::cookie_store(enable): a Jar of its own, or none
cookie_store(builder, enable, provider) ==
    IF enable THEN cookie_provider(builder, provider)
    ELSE [builder EXCEPT !.cookie_store = None]

\* what the closure handed to with_client_builder does to the builder
Closures ==
    {"identity", "cookie_provider", "cookie_store(true)", "cookie_store(false)"}

\* whether the closure makes a Jar of its own
MakesJar(closure) == closure \in {"cookie_provider", "cookie_store(true)"}

\* build(builder), own being the Jar the closure makes
build(closure, builder, own) ==
    CASE closure = "identity" -> builder
      [] closure = "cookie_provider" -> cookie_provider(builder, own)
      [] closure = "cookie_store(true)" -> cookie_store(builder, TRUE, own)
      [] closure = "cookie_store(false)" -> cookie_store(builder, FALSE, own)

\* a with_client_builder that keeps the cookie store the closure chose and
\* hands its own Jar to the builder only when there is none
with_client_builder_keep(closure, cookie_jar, own) ==
    LET builder == build(closure, ClientBuilder_new, own)
    IN  [client |-> IF builder.cookie_store.some
                    THEN builder.cookie_store.v
                    ELSE cookie_jar,
         cookie_jar |-> cookie_jar]

\* Session::with_client_builder(build), cookie_jar being the Jar it makes:
\* cookie_provider(cookie_jar.clone()) is called on what the closure
\* returns; the Client uses the cookie store of the builder it is built of
with_client_builder(closure, cookie_jar, own) ==
    LET builder == cookie_provider(build(closure, ClientBuilder_new, own),
                                   cookie_jar)
    IN  [client |-> builder.cookie_store.v, cookie_jar |-> cookie_jar]

\* Session::with_client_builder with any closure: the Jar of the Session is
\* made first, then the closure runs and may make one more; the Session
\* value remembers the closure it was built with
SessionBuild ==
    /\ Len(sessions) < MaxBuilt
    /\ \E closure \in Closures :
        LET cookie_jar == Len(stores) + 1
            own == Len(stores) + 2
            session == with_client_builder(closure, cookie_jar, own)
        IN  /\ stores' = stores \o <<{}>>
                            \o (IF MakesJar(closure) THEN <<{}>> ELSE <<>>)
            /\ sessions' = Append(sessions,
                                  [client |-> session.client,
                                   cookie_jar |-> session.cookie_jar,
                                   origin |-> Len(sessions) + 1,
                                   closure |-> closure])
    /\ seen' = Seen("build", Len(sessions) + 1, ENDPOINT_DIRECT, <<>>, {}, NoRet,
                    seen.last_login)
    /\ UNCHANGED <<pureVars, protoVars, raceVars>>

NextBuild ==
    \/ SessionBuild
    \/ SessionCheckStatus
    \/ SessionTokenLogin

SpecBuild == InitClone /\ [][NextBuild]_vars

\* the Jars that no Session value holds in cookie_jar: those the closures
\* made
ClosureJars(ss, st) == (1..Len(st)) \ {ss[h].cookie_jar : h \in 1..Len(ss)}

(* C26: whatever the closure handed to with_client_builder does, setting   *)
(* a cookie provider or a cookie store of its own included, the Client of  *)
(* the Session uses the Jar that cookie_jar() returns: the requests of a   *)
(* login or status check carry the cookies of that Jar, with the cookie a  *)
(* Token login injects, and a Jar the closure made is never read nor       *)
(* written.                                                                *)
C26_BuilderKeepsOwnJar ==
    [][/\ \A h \in 1..Len(sessions') :
            sessions'[h].client = sessions'[h].cookie_jar
       /\ \A k \in ClosureJars(sessions', stores') : stores'[k] = {}
       /\ seen'.op \in {"check_status", "login"} =>
            LET e == seen'.endpoint
                before == stores[sessions[seen'.session].cookie_jar]
                store == IF seen'.op = "login"
                         THEN add_cookie_str(before,
                                e.cookie_name \o <<EQ>> \o seen'.token,
                                e.cookie_url)
                         ELSE before
            IN  seen'.sent = Matching(store, e.cookie_url)]_vars

\* a Token login through a Session whose closure set a cookie provider or
\* store of its own returned Active: the request carried the injected
\* cookie, which is in the Jar of the Session, and the Jar of the closure
\* is empty
C26_Witness ==
    /\ seen.op = "login"
    /\ seen.ret = Ok(Active(<<"g">>, <<"2", "0">>))
    /\ LET s == sessions[seen.session]
       IN  /\ s.closure = "cookie_provider"
           /\ s.cookie_jar + 1 \in ClosureJars(sessions, stores)
           /\ stores[s.cookie_jar + 1] = {}
           /\ seen.sent = {[scope |-> seen.endpoint.cookie_url,
                            name |-> seen.endpoint.cookie_name,
                            value |-> <<"g">>]}
           /\ seen.sent \subseteq stores[s.cookie_jar]

-----------------------------------------------------------------------------
(* SpecAuth: the values of the three auth methods, their equality and      *)
(* their text forms.  A text is spelled character by character here, so    *)
(* that str::find on it is exact.                                          *)

\* longest username, password, token or uuid of an auth method value
MaxStr == 1

BACKSLASH == "\\"
AuthChars == {"n", "x", QUOTE}
AuthStrings == SeqUpTo(AuthChars, MaxStr)

\* Credential::new
Credential(username, password) ==
    [type |-> "Credential", username |-> username, password |-> password]

\* Token::new
Token(token) == [type |-> "Token", token |-> token]

\* Wechat::new(Some(uuid))
Wechat(uuid) == [type |-> "Wechat", uuid |-> uuid]

\* an equality of Credentials that looks at the usernames only
credential_eq_username(a, b) == a.username = b.username

\* #[derive(PartialEq)] on Credential: field by field
credential_eq(a, b) == a.username = b.username /\ a.password = b.password

\* #[derive(PartialEq)] on Token
token_eq(a, b) == a.token = b.token

\* #[derive(PartialEq)] on Wechat
wechat_eq(a, b) == a.uuid = b.uuid

\* a == b for two values of one auth method
auth_eq(a, b) ==
    CASE a.type = "Credential" -> credential_eq(a, b)
      [] a.type = "Token" -> token_eq(a, b)
      [] a.type = "Wechat" -> wechat_eq(a, b)

\* a Display of Credential that writes the password as well
credential_fmt_password(c) ==
    <<"c", "r", "e", "d", "e", "n", "t", "i", "a", "l", "#">>
        \o c.username \o <<":">> \o c.password

\* impl Display for Credential: write!(f, "credential#{}", self.username)
credential_fmt(c) ==
    <<"c", "r", "e", "d", "e", "n", "t", "i", "a", "l", "#">> \o c.username

\* impl Display for Token: write!(f, "token")
token_fmt(t) == <<"t", "o", "k", "e", "n">>

\* impl Display for Wechat: write!(f, "wechat#{}", self.uuid)
wechat_fmt(w) == <<"w", "e", "c", "h", "a", "t", "#">> \o w.uuid

\* format!("{}", a)
auth_fmt(a) ==
    CASE a.type = "Credential" -> credential_fmt(a)
      [] a.type = "Token" -> token_fmt(a)
      [] a.type = "Wechat" -> wechat_fmt(a)

\* <str as Debug>::fmt: the text between quotes, a quote or a backslash in
\* it escaped by a backslash
RECURSIVE escape_debug(_)
escape_debug(text) ==
    IF text = <<>> THEN <<>>
    ELSE (IF Head(text) \in {QUOTE, BACKSLASH}
          THEN <<BACKSLASH, Head(text)>>
          ELSE <<Head(text)>>) \o escape_debug(Tail(text))

str_debug(text) == <<QUOTE>> \o escape_debug(text) \o <<QUOTE>>

\* #[derive(Debug)] on Credential: every field is written
credential_debug(c) ==
    <<"C", "r", "e", "d", "e", "n", "t", "i", "a", "l", " ", "{", " ", "u",
      "s", "e", "r", "n", "a", "m", "e", ":", " ">>
        \o str_debug(c.username)
        \o <<",", " ", "p", "a", "s", "s", "w", "o", "r", "d", ":", " ">>
        \o str_debug(c.password) \o <<" ", "}">>

\* #[derive(Debug)] on Token(String)
token_debug(t) ==
    <<"T", "o", "k", "e", "n", "(">> \o str_debug(t.token) \o <<")">>

\* #[derive(Debug)] on Wechat
wechat_debug(w) ==
    <<"W", "e", "c", "h", "a", "t", " ", "{", " ", "u", "u", "i", "d", ":",
      " ">>
        \o str_debug(w.uuid) \o <<" ", "}">>

\* format!("{:?}", a)
auth_debug(a) ==
    CASE a.type = "Credential" -> credential_debug(a)
      [] a.type = "Token" -> token_debug(a)
      [] a.type = "Wechat" -> wechat_debug(a)

\* two values of one auth method
AuthPairs ==
    {<<Credential(u, p), Credential(v, r)>> :
        u \in AuthStrings, p \in AuthStrings,
        v \in AuthStrings, r \in AuthStrings}
        \cup {<<Token(t), Token(u)>> : t \in AuthStrings, u \in AuthStrings}
        \cup {<<Wechat(t), Wechat(u)>> : t \in AuthStrings, u \in AuthStrings}

InitAuth ==
    /\ input \in {[fn |-> "auth", a |-> pair[1], b |-> pair[2]] :
                    pair \in AuthPairs}
    /\ output = NotRun
    /\ FreshSession
    /\ NoSessions

\* the operation name has been applied to the two values, with this result
AuthOp(name, value) ==
    /\ input.fn = "auth"
    /\ ~Applied(name)
    /\ output' = Returned(Results @@ (name :> value))
    /\ UNCHANGED <<input, protoVars, cloneVars, raceVars>>

\* assert_eq!(a, b), assert_eq!(b, a), assert_eq!(a, a)
Compare ==
    AuthOp("eq", [ab |-> auth_eq(input.a, input.b),
                  ba |-> auth_eq(input.b, input.a),
                  aa |-> auth_eq(input.a, input.a)])

\* format!("{}", a) and format!("{}", b)
Format == AuthOp("display", <<auth_fmt(input.a), auth_fmt(input.b)>>)

\* format!("{:?}", a) and format!("{:?}", b)
FormatDebug == AuthOp("debug", <<auth_debug(input.a), auth_debug(input.b)>>)

NextAuth ==
    \/ Compare
    \/ Format
    \/ FormatDebug

SpecAuth == InitAuth /\ [][NextAuth]_vars

\* str::contains, by way of str::find
Contains(text, pat) == Find(text, pat).some

(* C22: two Credentials are equal if and only if their usernames are equal *)
(* and their passwords are equal, two Tokens if and only if their token    *)
(* strings are equal, two Wechats if and only if their uuids are equal;    *)
(* every value equals itself, and a == b gives what b == a gives.          *)
C22_ValueEquality ==
    (input.fn = "auth" /\ Applied("eq")) =>
        LET a == input.a
            b == input.b
            eq == output.v["eq"]
        IN  /\ a.type = "Credential" =>
                (eq.ab <=> (a.username = b.username /\ a.password = b.password))
            /\ a.type = "Token" => (eq.ab <=> a.token = b.token)
            /\ a.type = "Wechat" => (eq.ab <=> a.uuid = b.uuid)
            /\ eq.aa
            /\ eq.ab <=> eq.ba

\* two Credentials of one username and two passwords have been compared and
\* found different, each equal to itself
C22_Witness ==
    /\ input.fn = "auth"
    /\ Applied("eq")
    /\ input.a.type = "Credential"
    /\ input.a.username = input.b.username
    /\ input.a.password # input.b.password
    /\ ~output.v["eq"].ab
    /\ output.v["eq"].aa

\* the secret of an auth method value: the password of a Credential, the
\* token of a Token
HasSecret(a) == a.type \in {"Credential", "Token"}
Secret(a) == IF a.type = "Credential" THEN a.password ELSE a.token

(* C23, as stated: for every username, every password and every token     *)
(* that is not empty, the display form of a Credential does not contain    *)
(* the password, and the display form of a Token does not contain the      *)
(* token value.                                                            *)
C23_DisplayNeverContainsSecret ==
    (/\ input.fn = "auth"
     /\ Applied("display")
     /\ HasSecret(input.a)
     /\ Secret(input.a) # <<>>) =>
        ~Contains(output.v["display"][1], Secret(input.a))

(* C23, amended: the display form of a Credential is credential#<username> *)
(* and that of a Token is the text token: it is the same for two           *)
(* Credentials of one username whatever their passwords, and the same for  *)
(* any two Tokens.                                                         *)
C23_DisplayIgnoresSecret ==
    (input.fn = "auth" /\ Applied("display")) =>
        LET a == input.a
            b == input.b
            display == output.v["display"]
        IN  /\ a.type = "Credential" =>
                /\ display[1] = <<"c", "r", "e", "d", "e", "n", "t", "i",
                                  "a", "l", "#">>
                                    \o a.username
                /\ a.username = b.username => display[1] = display[2]
            /\ a.type = "Token" =>
                /\ display[1] = <<"t", "o", "k", "e", "n">>
                /\ display[1] = display[2]

\* two Credentials of one username and two passwords have been displayed,
\* one password occurring in the display form and one not
C23_Witness ==
    /\ input.fn = "auth"
    /\ Applied("display")
    /\ input.a.type = "Credential"
    /\ input.a.username = input.b.username
    /\ input.a.password # input.b.password
    /\ output.v["display"][1] = output.v["display"][2]
    /\ Contains(output.v["display"][1], input.a.password)
    /\ ~Contains(output.v["display"][2], input.b.password)

\* the value a with an empty secret in place of its own
Emptied(a) ==
    IF a.type = "Credential" THEN Credential(a.username, <<>>) ELSE Token(<<>>)

(* C24: the debug form of a Credential does not contain the password and   *)
(* the debug form of a Token does not contain the raw token value, for     *)
(* every password and token that does not already occur in the rest of     *)
(* the debug form (the text written for the same value with an empty       *)
(* secret).                                                                *)
C24_DebugHidesSecret ==
    (/\ input.fn = "auth"
     /\ Applied("debug")
     /\ HasSecret(input.a)
     /\ ~Contains(auth_debug(Emptied(input.a)), Secret(input.a))) =>
        ~Contains(output.v["debug"][1], Secret(input.a))

-----------------------------------------------------------------------------
(* SpecUuid: Wechat::new and Wechat::default, and the correlation ids that *)
(* generate_uuid makes of the clock and of the random draws.  The clock,   *)
(* milliseconds since the epoch, is a number written in hexadecimal, least *)
(* digit first, so that it is not bounded by the integers of the checker;  *)
(* a draw is the whole part that rand_gen.gen::<f64>() * 16f64 adds to d,  *)
(* 0 to 15, or 16 where the sum rounds up.                                 *)

\* most free low digits of a clock value
MaxClock == 2
\* longest pattern of random draws, repeated for the length of the loop
MaxDraws == 2

\* static HEX: &[char; 16]
HEX ==
    <<"0", "1", "2", "3", "4", "5", "6", "7", "8", "9",
      "a", "b", "c", "d", "e", "f">>

\* d + k for a clock d and a small k
RECURSIVE AddTo(_, _)
AddTo(d, k) ==
    IF k = 0 THEN d
    ELSE LET lo == (IF d = <<>> THEN 0 ELSE Head(d)) + k
         IN  <<lo % 16>> \o AddTo(IF d = <<>> THEN <<>> ELSE Tail(d), lo \div 16)

\* the number of digits of d up to its last digit that is not 0
Digits(d) == Max({0} \cup {i \in 1..Len(d) : d[i] # 0})

\* (d as usize) % 16 on a 64-bit target: the cast saturates at usize::MAX,
\* sixteen digits f
as_usize_mod16(d) ==
    IF Digits(d) > 16 THEN 15
    ELSE IF d = <<>> THEN 0
    ELSE Head(d)

\* (d / 16f64).floor()
div16_floor(d) == IF d = <<>> THEN <<>> ELSE Tail(d)

\* generate_uuid, the loop from position i on: d the clock value left, n
\* the number of draws made, dashes the positions of the '-'
RECURSIVE uuid_loop(_, _, _, _, _)
uuid_loop(i, d, n, draws, dashes) ==
    IF i >= 36 THEN <<>>
    ELSE IF i \in dashes
    THEN <<DASH>> \o uuid_loop(i + 1, d, n, draws, dashes)
    ELSE LET r == as_usize_mod16(AddTo(d, draws[(n % Len(draws)) + 1]))
         IN  <<HEX[r + 1]>>
                \o uuid_loop(i + 1, div16_floor(d), n + 1, draws, dashes)

\* a generate_uuid that puts each '-' one position later
generate_uuid_late(clock, draws) ==
    uuid_loop(0, clock, 0, draws, {9, 14, 19, 24})

\* fn generate_uuid() -> String, for the clock value read and the draws made
generate_uuid(clock, draws) == uuid_loop(0, clock, 0, draws, {8, 13, 18, 23})

\* impl Default for Wechat; clock is what duration_since(UNIX_EPOCH) gives,
\* the milliseconds or none for a clock before the epoch, and then the
\* expect panics
wechat_default(clock, draws) ==
    IF ~clock.some THEN Panicked
    ELSE Value(Wechat(generate_uuid(clock.v, draws)))

\* Wechat::new(uuid: Option<String>)
wechat_new(uuid, clock, draws) ==
    IF uuid.some THEN Value(Wechat(uuid.v)) ELSE wechat_default(clock, draws)

\* the high digits of a clock value: none, those of a day of 2024
\* (0x18cfe568000 ms), those of a clock past usize::MAX milliseconds
ClockTops ==
    {<<>>,
     <<8, 6, 5, 14, 15, 12, 8, 1>>,
     <<1, 0, 0, 0, 0, 0, 0, 0, 0, 0, 0, 0, 0, 0, 0, 0, 1>>}
ClockDigits == {0, 9, 15}
Clocks ==
    {Some(low \o top) :
        low \in SeqUpTo(ClockDigits, MaxClock), top \in ClockTops}
        \cup {None}
DrawValues == {0, 7, 16}
Draws == SeqUpTo(DrawValues, MaxDraws) \ {<<>>}

InitUuid ==
    /\ input \in [fn : {"wechat"}, uuid : {None, Some(<<"a">>)},
                  clock : Clocks, draws : Draws]
    /\ output = NotRun
    /\ FreshSession
    /\ NoSessions

\* the constructor name has returned value
Constructed(name, value) ==
    /\ input.fn = "wechat"
    /\ ~Applied(name)
    /\ output' = Returned(Results @@ (name :> value))
    /\ UNCHANGED <<input, protoVars, cloneVars, raceVars>>

WechatNew ==
    Constructed("new", wechat_new(input.uuid, input.clock, input.draws))

WechatDefault ==
    Constructed("default", wechat_default(input.clock, input.draws))

NextUuid ==
    \/ WechatNew
    \/ WechatDefault

SpecUuid == InitUuid /\ [][NextUuid]_vars

\* whether uuid has 36 characters, '-' at positions 8, 13, 18 and 23 and a
\* lowercase hexadecimal digit everywhere else
WellShaped(uuid) ==
    /\ Len(uuid) = 36
    /\ \A i \in 0..35 :
        IF i \in {8, 13, 18, 23}
        THEN uuid[i + 1] = "-"
        ELSE uuid[i + 1] \in {"0", "1", "2", "3", "4", "5", "6", "7", "8", "9",
                              "a", "b", "c", "d", "e", "f"}

(* C25: every correlation id that Wechat::default or Wechat::new(None)     *)
(* returns, whatever the clock and the random draws, has 36 characters,    *)
(* '-' at positions 8, 13, 18 and 23 and a lowercase hexadecimal digit at  *)
(* every other position.                                                   *)
C25_UuidShape ==
    input.fn = "wechat" =>
        /\ (Applied("default") /\ ~output.v["default"].panic) =>
                WellShaped(output.v["default"].v.uuid)
        /\ (Applied("new") /\ ~input.uuid.some /\ ~output.v["new"].panic) =>
                WellShaped(output.v["new"].v.uuid)

\* Wechat::new(None) has returned an id made of a clock value of 2024 and of
\* draws that differ, and the id is not made of one digit alone
C25_Witness ==
    /\ input.fn = "wechat"
    /\ Applied("new")
    /\ ~input.uuid.some
    /\ input.clock.some
    /\ Len(input.clock.v) > 8
    /\ Len(input.draws) > 1
    /\ input.draws[1] # input.draws[2]
    /\ ~output.v["new"].panic
    /\ WellShaped(output.v["new"].v.uuid)
    /\ output.v["new"].v.uuid[1] # output.v["new"].v.uuid[2]

-----------------------------------------------------------------------------
(* The correlation id of a Wechat method over the polls made with it *)

\* the value of the query parameter uuid of a verify url, the last of its
\* parameters
UuidParam(url) ==
    LET at == Find(url, <<"&uuid=">>)
    IN  IF at.some THEN Some(SubSeq(url, at.v + 2, Len(url))) ELSE None

(* C28: the correlation id of a Wechat never changes: Wechat::new(Some(u)) *)
(* holds u itself, get_auth_url returns the authorization url followed by  *)
(* ?uuid=<u>, and the verify request of every poll made with the Wechat is *)
(* a GET of endpoint.wechat_verify_url with a parameter random and, after  *)
(* it, the parameter uuid with the value u: the same in a poll as in the   *)
(* poll before it with the same Wechat, and unchanged while a poll runs.   *)
C28_UuidNeverChanges ==
    [][/\ (pc = "idle" /\ pc' = "verify_response") =>
            LET u == call'.uuid
                base == call'.endpoint.wechat_verify_url
                url == log'[1].url
            IN  /\ call'.method = "Wechat"
                /\ wechat_new(Some(u), None, <<0>>) = Value(Wechat(u))
                /\ get_auth_url(u)
                        = <<"https://pass.neu.edu.cn", "/tpass/qyQrLogin",
                            "?uuid=">> \o u
                /\ log' = <<Get(url)>>
                /\ StartsWith(url, base)
                /\ Len(url) = Len(base) + 3 + Len(u)
                /\ url[Len(base) + 1] = "?random="
                /\ url[Len(base) + 2] \in Randoms
                /\ UuidParam(url) = Some(u)
                /\ (call.method = "Wechat" /\ call.uuid = u) =>
                        UuidParam(url) = UuidParam(log[1].url)
       /\ (call.method = "Wechat" /\ pc \in {"verify_response", "check_response"}) =>
            /\ call'.uuid = call.uuid
            /\ log'[1] = log[1]]_vars

\* a poll through WebVPN with the Wechat of uuid b, begun after a Wechat
\* login had returned Active, is waiting for its verify response: its
\* request carries the uuid b
C28_Witness ==
    /\ call.method = "Wechat"
    /\ pc = "verify_response"
    /\ held.some
    /\ held.method = "Wechat"
    /\ call.endpoint = ENDPOINT_WEBVPN
    /\ call.uuid = <<"b">>
    /\ UuidParam(log[1].url) = Some(<<"b">>)

-----------------------------------------------------------------------------
(* The cookie of a Token login after the login has come to nothing *)

\* the cookie Token::execute wrote for the call c
Injected(c) ==
    [scope |-> c.endpoint.cookie_url,
     name |-> c.endpoint.cookie_name,
     value |-> c.token]

\* whether the response r set the token cookie of endpoint e
SetsToken(r, e) ==
    r.kind # "fail" /\ \E k \in r.cookies : k.name = e.cookie_name

\* the Token login c came to Rejected or to an error
CameToNothing(c, r) ==
    c.method = "Token" /\ (r = Ok(Rejected) \/ r.kind = "Err")

(* C34: Token.execute does not roll back its injection.  When its status   *)
(* check returns Rejected or fails with an error, the cookie               *)
(* <cookie_name>=<token> the call wrote is in the store when the call      *)
(* returns, unless the response set that cookie itself; handing the result *)
(* to the caller leaves the store as it is; and the next login or status   *)
(* check of the Session on that endpoint, if the cookie is still in the    *)
(* store, sends its request with the cookie.                               *)
C34_InjectionStays ==
    [][/\ (pc = "check_response" /\ pc' = "done" /\ CameToNothing(call, ret')) =>
            \/ Injected(call) \in jar'
            \/ SetsToken(resp', call.endpoint)
       /\ (pc = "done" /\ pc' = "idle") => jar' = jar
       /\ (/\ pc = "idle" /\ pc' # "idle"
           /\ CameToNothing(call, ret)
           /\ Injected(call) \in jar
           /\ call'.endpoint = call.endpoint
           /\ call'.method # "Token") =>
            /\ Len(log') = 1
            /\ Injected(call) \in Matching(jar', call'.endpoint.cookie_url)]_vars

\* a Token login with the stale token on the direct endpoint was served
\* the login page and returned Rejected; the call is over and the store
\* holds the stale token, its only cookie
C34_Witness ==
    /\ pc = "idle"
    /\ call.method = "Token"
    /\ call.endpoint = ENDPOINT_DIRECT
    /\ call.token = StaleToken
    /\ ret = Ok(Rejected)
    /\ jar = {Injected(call)}
    /\ Matching(jar, ENDPOINT_DIRECT.cookie_url) = {Injected(call)}

====
